---- MODULE Spec2Model ----
(***************************************************************************)
(* Graphator: the collection worker (app/worker/index.ts), the sensor      *)
(* discovery service, the Home Assistant client and the reading            *)
(* persistence, modelled as a state machine.                               *)
(*                                                                         *)
(* JavaScript strings are modelled as sequences of one-character strings,  *)
(* an absent or empty optional string as the empty sequence (every use of  *)
(* such a field in the source treats undefined and '' alike), dates as     *)
(* whole days since an epoch, an optional number as a set of at most one   *)
(* number.                                                                 *)
(***************************************************************************)
EXTENDS Integers, Sequences, FiniteSets, Bags, TLC

\* ---------------------------------------------------------------- bounds
\* last day the clock reads (the first one is day RETENTION_DAYS)
MaxDay == 31
\* collection passes started in one run of the worker (initial one included)
MaxPasses == 2
\* discovery runs started in one run of the worker (initial one included)
MaxDiscoveries == 2
\* retention runs started in one run of the worker
MaxCleanups == 1
\* readings held by a store whose retention is exercised on its own
MaxStored == 3
\* last day a reading of such a store is stamped with
MaxStamp == 2
\* most sensors in a list handed to groupSensorsByLocation
MaxGroupInput == 3
\* most records in a snapshot handed to the classifier on its own
MaxSnapshot == 2
\* retention ticks of a worker whose retention timer is followed on its own
MaxRetentionTicks == 3
\* add calls made on a store that is full or one reading short of it
MaxAdds == 3
\* the limit of readings per sensor of the store whose add calls are followed
\* one by one; add reads MAX_POINTS_PER_SENSOR in one comparison only
MaxPoints == 3
\* initializeServer calls made in the server process
MaxInits == 2
\* interval callbacks run in the server process
MaxServerTicks == 2
\* shutdownServer calls run in the server process
MaxShutdowns == 2
\* start calls that find a BackgroundDataCollectionService not running
MaxStarts == 2

\* ------------------------------------------------------ program constants
RETENTION_DAYS == 30
MAX_RETENTION_DAYS == 30
MAX_POINTS_PER_SENSOR == 50000

\* ------------------------------------------------------------- strings
Undefined == <<>>

sensorPrefix == <<"s","e","n","s","o","r",".">>

\* String.prototype.startsWith
StartsWith(s, p) ==
  /\ Len(s) >= Len(p)
  /\ SubSeq(s, 1, Len(p)) = p

\* does pattern p occur in s at position i
OccursAt(s, p, i) ==
  /\ i + Len(p) - 1 <= Len(s)
  /\ \A j \in 1..Len(p) : s[i + j - 1] = p[j]

\* String.prototype.includes
Includes(s, p) == \E i \in 1..(Len(s) + 1) : OccursAt(s, p, i)

\* String.prototype.replace(p, '') : removes the first occurrence of p
ReplaceFirstWithEmpty(s, p) ==
  IF Includes(s, p)
  THEN LET i == CHOOSE k \in 1..(Len(s) + 1) :
                  /\ OccursAt(s, p, k)
                  /\ \A j \in 1..(k - 1) : ~OccursAt(s, p, j)
       IN SubSeq(s, 1, i - 1) \o SubSeq(s, i + Len(p), Len(s))
  ELSE s

\* a || b on strings
OrElse(a, b) == IF a = Undefined THEN b ELSE a

Digits == <<"0","1","2","3","4","5","6","7","8","9">>

IsDigit(c) == \E d \in 1..10 : Digits[d] = c

DigitValue(c) == (CHOOSE d \in 1..10 : Digits[d] = c) - 1

RECURSIVE DigitsPrefixLen(_, _)
DigitsPrefixLen(s, i) ==
  IF i <= Len(s) /\ IsDigit(s[i]) THEN 1 + DigitsPrefixLen(s, i + 1) ELSE 0

RECURSIVE DigitsValue(_, _, _)
DigitsValue(s, i, n) ==
  IF n = 0 THEN 0
  ELSE DigitsValue(s, i, n - 1) * 10 + DigitValue(s[i + n - 1])

\* parseFloat on the strings of this model (no fraction, no exponent): the
\* longest prefix "-"? digit+ is the value, anything else gives NaN
parseFloat(s) ==
  LET neg   == Len(s) >= 1 /\ s[1] = "-"
      start == IF neg THEN 2 ELSE 1
      n     == DigitsPrefixLen(s, start)
  IN IF n = 0
     THEN [nan |-> TRUE, value |-> 0]
     ELSE [nan |-> FALSE,
           value |-> IF neg THEN 0 - DigitsValue(s, start, n)
                     ELSE DigitsValue(s, start, n)]

\* ------------------------------------------------- external telemetry source
\* the entities of the Home Assistant instance, as GET /api/states serves them
EntityTemp ==
  [entity_id |-> <<"s","e","n","s","o","r",".","t","1">>,
   state |-> <<"2","1">>,
   last_updated |-> 30,
   attributes |-> [friendly_name |-> <<"B","a","d"," ","T","e","m","p","e","r","a","t","u","r","e">>,
                   unit_of_measurement |-> <<"°","C">>,
                   device_class |-> <<"t","e","m","p","e","r","a","t","u","r","e">>]]

EntityTempRenamed ==
  [entity_id |-> <<"s","e","n","s","o","r",".","t","1">>,
   state |-> <<"2","1">>,
   last_updated |-> 31,
   attributes |-> [friendly_name |-> <<"B","a","d"," ","T","e","m","p">>,
                   unit_of_measurement |-> <<"°","C">>,
                   device_class |-> Undefined]]

EntityHum ==
  [entity_id |-> <<"s","e","n","s","o","r",".","h","1">>,
   state |-> <<"2","1">>,
   last_updated |-> 30,
   attributes |-> [friendly_name |-> Undefined,
                   unit_of_measurement |-> <<"%">>,
                   device_class |-> Undefined]]

EntityPower ==
  [entity_id |-> <<"s","e","n","s","o","r",".","p","1">>,
   state |-> <<"2","1">>,
   last_updated |-> 30,
   attributes |-> [friendly_name |-> <<"P","l","u","g">>,
                   unit_of_measurement |-> <<"W">>,
                   device_class |-> <<"p","o","w","e","r">>]]

EntityLight ==
  [entity_id |-> <<"l","i","g","h","t",".","l","1">>,
   state |-> <<"2","1">>,
   last_updated |-> 0,
   attributes |-> [friendly_name |-> <<"L","a","m","p">>,
                   unit_of_measurement |-> <<"%">>,
                   device_class |-> Undefined]]

\* the snapshots GET /api/states can return
Snapshots ==
  { <<EntityTemp, EntityLight, EntityHum>>,
    <<EntityPower, EntityTempRenamed>>,
    <<EntityLight>> }

\* the state strings GET /api/states/<entity> can return
StateStrings ==
  { <<"2","1">>,
    <<"u","n","a","v","a","i","l","a","b","l","e">> }

\* the causes for which HomeAssistantClient.fetch rejects
FetchErrors == {"API Error: 401", "network"}

\* the days the clock can read
Clock == RETENTION_DAYS..MaxDay

\* the last_updated a served state can carry: unchanged since day 0, or
\* changed on the first day of the clock
LastUpdatedValues == {0, RETENTION_DAYS}

\* ------------------------------------------------------ sensor discovery
temperatureStr == <<"t","e","m","p","e","r","a","t","u","r","e">>
humidityStr == <<"h","u","m","i","d","i","t","y">>

\* getSensorType as it would be were a record with a temperature signal and
\* a humidity signal given the type both
getSensorTypeBoth(state) ==
  LET deviceClass == state.attributes.device_class
      unit == state.attributes.unit_of_measurement
      temperature == deviceClass = temperatureStr \/ Includes(unit, <<"°">>)
      humidity == deviceClass = humidityStr \/ unit = <<"%">>
  IN IF temperature /\ humidity THEN "both"
     ELSE IF temperature THEN "temperature"
     ELSE IF humidity THEN "humidity"
     ELSE "null"

\* getSensorType as it would be were any unit containing "%" a humidity unit
getSensorTypeAnyPercent(state) ==
  LET deviceClass == state.attributes.device_class
      unit == state.attributes.unit_of_measurement
  IN IF deviceClass = temperatureStr \/ Includes(unit, <<"°">>)
     THEN "temperature"
     ELSE IF deviceClass = humidityStr \/ Includes(unit, <<"%">>)
     THEN "humidity"
     ELSE "null"

\* SensorDiscoveryService.getSensorType ("null" when the record is no sensor)
getSensorType(state) ==
  LET deviceClass == state.attributes.device_class
      unit == state.attributes.unit_of_measurement
  IN IF deviceClass = temperatureStr \/ Includes(unit, <<"°">>)
     THEN "temperature"
     ELSE IF deviceClass = humidityStr \/ unit = <<"%">>
     THEN "humidity"
     ELSE "null"

\* mapStateToSensor as it would be were the name of a record without a
\* friendly name its id, the entity id without the prefix
mapStateToSensorNamedById(state) ==
  [id |-> ReplaceFirstWithEmpty(state.entity_id, sensorPrefix),
   entityId |-> state.entity_id,
   friendlyName |-> OrElse(state.attributes.friendly_name,
                           ReplaceFirstWithEmpty(state.entity_id, sensorPrefix)),
   type |-> getSensorType(state),
   unit |-> OrElse(state.attributes.unit_of_measurement, <<>>),
   lastSeen |-> state.last_updated,
   status |-> "online"]

\* mapStateToSensor as it would be were a record not updated on the latest
\* day mapped to an offline sensor
mapStateToSensorStaleOffline(state) ==
  [id |-> ReplaceFirstWithEmpty(state.entity_id, sensorPrefix),
   entityId |-> state.entity_id,
   friendlyName |-> OrElse(state.attributes.friendly_name, state.entity_id),
   type |-> getSensorType(state),
   unit |-> OrElse(state.attributes.unit_of_measurement, <<>>),
   lastSeen |-> state.last_updated,
   status |-> IF state.last_updated < 31 THEN "offline" ELSE "online"]

\* SensorDiscoveryService.mapStateToSensor (called only when the type is
\* not null)
mapStateToSensor(state) ==
  [id |-> ReplaceFirstWithEmpty(state.entity_id, sensorPrefix),
   entityId |-> state.entity_id,
   friendlyName |-> OrElse(state.attributes.friendly_name, state.entity_id),
   type |-> getSensorType(state),
   unit |-> OrElse(state.attributes.unit_of_measurement, <<>>),
   lastSeen |-> state.last_updated,
   status |-> "online"]

\* states.filter(startsWith 'sensor.').map(mapStateToSensor).filter(non-null)
RECURSIVE filterMapSensors(_)
filterMapSensors(states) ==
  IF states = <<>> THEN <<>>
  ELSE LET st == Head(states)
           rest == filterMapSensors(Tail(states))
       IN IF StartsWith(st.entity_id, sensorPrefix) /\ getSensorType(st) # "null"
          THEN <<mapStateToSensor(st)>> \o rest
          ELSE rest

\* discoverSensors as it would be were the error swallowed
discoverSensorsSwallowing(response) ==
  IF response.ok
  THEN [threw |-> FALSE, error |-> "", sensors |-> filterMapSensors(response.states)]
  ELSE [threw |-> FALSE, error |-> "", sensors |-> <<>>]

\* SensorDiscoveryService.discoverSensors, given the outcome of its
\* getAllStates call: the sensors it returns or the error it throws
discoverSensors(response) ==
  IF response.ok
  THEN [threw |-> FALSE, error |-> "", sensors |-> filterMapSensors(response.states)]
  ELSE [threw |-> TRUE, error |-> response.error, sensors |-> <<>>]

\* ------------------------------------------------------------ persistence
Null == {}

\* readingRepository.insertReading: the row written for a reading
ReadingRow(reading) ==
  [sensor_id |-> reading.sensorId,
   timestamp |-> reading.timestamp,
   temperature |-> IF "temperature" \in DOMAIN reading THEN {reading.temperature} ELSE Null,
   humidity |-> IF "humidity" \in DOMAIN reading THEN {reading.humidity} ELSE Null]

insertReading(table, reading) == table (+) SetToBag({ReadingRow(reading)})

\* CONSTRAINT at_least_one_value CHECK (temperature IS NOT NULL OR
\* humidity IS NOT NULL) of table sensor_readings
at_least_one_value(row) == row.temperature # Null \/ row.humidity # Null

\* RowsBefore as it would be were the comparison <=
RowsBeforeInclusive(table, cutoffDate) ==
  {r \in BagToSet(table) : r.timestamp <= cutoffDate}

\* rows of a table (a bag) matched by DELETE ... WHERE timestamp < cutoff
RowsBefore(table, cutoffDate) ==
  {r \in BagToSet(table) : r.timestamp < cutoffDate}

\* deleteOldReadings as it would be were one copy of each matching row
\* removed per call (a DELETE bounded to one row per match)
deleteOldReadingsOneCopy(table, cutoffDate) ==
  LET gone == RowsBefore(table, cutoffDate)
      left == [r \in {x \in BagToSet(table) : x \notin gone \/ table[x] > 1} |->
                 IF r \in gone THEN table[r] - 1 ELSE table[r]]
  IN [table |-> left,
      rowCount |-> BagCardinality(table) - BagCardinality(left)]

\* readingRepository.deleteOldReadings: the table left and the rowCount
deleteOldReadings(table, cutoffDate) ==
  LET gone == RowsBefore(table, cutoffDate)
      kept == BagToSet(table) \ gone
  IN [table |-> [r \in kept |-> table[r]],
      rowCount |-> BagCardinality(table) - BagCardinality([r \in kept |-> table[r]])]

\* upsertSensor as it would be were the rows of the other sensors removed
upsertSensorReplacing(table, sensor) == [i \in {sensor.id} |-> sensor]

\* sensorRepository.upsertSensor: INSERT ... ON CONFLICT (id) DO UPDATE
upsertSensor(table, sensor) ==
  [i \in DOMAIN table \cup {sensor.id} |->
     IF i = sensor.id THEN sensor ELSE table[i]]

\* ------------------------------------------------------- in-memory store
\* add as it would be were the reading pushed last dropped on overflow
addWithLimitDroppingNewest(map, reading, limit) ==
  LET sensorId == reading.sensorId
      readings == IF sensorId \in DOMAIN map THEN map[sensorId] ELSE <<>>
      pushed == Append(readings, reading)
      capped == IF Len(pushed) > limit
                THEN SubSeq(pushed, 1, Len(pushed) - 1) ELSE pushed
  IN [k \in DOMAIN map \cup {sensorId} |-> IF k = sensorId THEN capped ELSE map[k]]

\* the body of InMemoryDataStore.add and ServerDataStore.add, the Map after
\* the call, with the limit it compares readings.length to as a parameter:
\* push, then shift when readings.length > limit
addWithLimit(map, reading, limit) ==
  LET sensorId == reading.sensorId
      readings == IF sensorId \in DOMAIN map THEN map[sensorId] ELSE <<>>
      pushed == Append(readings, reading)
      capped == IF Len(pushed) > limit THEN Tail(pushed) ELSE pushed
  IN [k \in DOMAIN map \cup {sensorId} |-> IF k = sensorId THEN capped ELSE map[k]]

\* InMemoryDataStore.add and ServerDataStore.add: the limit is
\* MAX_POINTS_PER_SENSOR
add(map, reading) == addWithLimit(map, reading, MAX_POINTS_PER_SENSOR)

\* readings.filter(reading => reading.timestamp >= cutoffDate)
RECURSIVE filterFrom(_, _)
filterFrom(readings, cutoffDate) ==
  IF readings = <<>> THEN <<>>
  ELSE IF Head(readings).timestamp >= cutoffDate
  THEN <<Head(readings)>> \o filterFrom(Tail(readings), cutoffDate)
  ELSE filterFrom(Tail(readings), cutoffDate)

RECURSIVE SumLen(_, _)
SumLen(map, keys) ==
  IF keys = {} THEN 0
  ELSE LET k == CHOOSE x \in keys : TRUE
       IN Len(map[k]) + SumLen(map, keys \ {k})

\* InMemoryDataStore.evictOldData and ServerDataStore.evictOldData, called
\* on day today: the Map left and the evictedCount returned
evictOldData(map, today) ==
  LET cutoffDate == today - MAX_RETENTION_DAYS
      filtered == [k \in DOMAIN map |-> filterFrom(map[k], cutoffDate)]
  IN [map |-> filtered,
      evictedCount |-> SumLen(map, DOMAIN map) - SumLen(filtered, DOMAIN map)]

\* InMemoryDataStore.getLatest and ServerDataStore.getLatest: the element
\* at readings.length - 1, undefined for an unknown sensor or an empty array
getLatest(map, sensorId) ==
  IF sensorId \in DOMAIN map /\ Len(map[sensorId]) > 0
  THEN {map[sensorId][Len(map[sensorId])]}
  ELSE Null

\* ServerDataStore.getAllLatest
getAllLatest(map) ==
  [sensorId \in {k \in DOMAIN map : Len(map[k]) > 0} |->
     map[sensorId][Len(map[sensorId])]]

\* ------------------------------------------------------- reading fetcher
\* BuildReading as it would be were the humidity branch left out
BuildReadingTemperatureOnly(sensor, state, value) ==
  LET base == [sensorId |-> sensor.id, timestamp |-> state.last_updated]
  IN IF sensor.type = "temperature" \/ sensor.type = "both"
     THEN base @@ [temperature |-> value] ELSE base

\* the SensorReading built by fetchAndStoreSensorData from a served state
\* whose value parsed
BuildReading(sensor, state, value) ==
  LET base == [sensorId |-> sensor.id, timestamp |-> state.last_updated]
      withT == IF sensor.type = "temperature" \/ sensor.type = "both"
               THEN base @@ [temperature |-> value] ELSE base
  IN IF sensor.type = "humidity" \/ sensor.type = "both"
     THEN withT @@ [humidity |-> value] ELSE withT

\* ---------------------------------------------------- location aggregator
\* JavaScript string helpers used by utils/sensorGrouping.ts; indices are
\* JavaScript's (from 0, -1 for no match)
UpperCase == <<"A","B","C","D","E","F","G","H","I","J","K","L","M","N","O","P","Q","R","S","T","U","V","W","X","Y","Z">>

LowerCase == <<"a","b","c","d","e","f","g","h","i","j","k","l","m","n","o","p","q","r","s","t","u","v","w","x","y","z">>

UpperSet == {UpperCase[k] : k \in 1..Len(UpperCase)}

LowerSet == {LowerCase[k] : k \in 1..Len(LowerCase)}

IsUpper(c) == c \in UpperSet

IsLower(c) == c \in LowerSet

\* the lower-case letter of each upper-case letter
LowerMap ==
  [c \in UpperSet |-> LowerCase[CHOOSE k \in 1..Len(UpperCase) : UpperCase[k] = c]]

\* String.prototype.toLowerCase and the /i flag, one character
LowerOf(c) == IF c \in UpperSet THEN LowerMap[c] ELSE c

toLowerCase(s) == [k \in 1..Len(s) |-> LowerOf(s[k])]

\* String.prototype.lastIndexOf
lastIndexOf(s, p) ==
  LET at == {k \in 1..(Len(s) + 1) : OccursAt(s, p, k)}
  IN IF at = {} THEN 0 - 1
     ELSE (CHOOSE k \in at : \A j \in at : j <= k) - 1

\* String.prototype.substring(from, to)
substring(s, from, to) == SubSeq(s, from + 1, to)

RECURSIVE trimStart(_)
trimStart(s) ==
  IF s # <<>> /\ Head(s) = " " THEN trimStart(Tail(s)) ELSE s

RECURSIVE trimEnd(_)
trimEnd(s) ==
  IF s # <<>> /\ s[Len(s)] = " " THEN trimEnd(SubSeq(s, 1, Len(s) - 1)) ELSE s

\* String.prototype.trim
trim(s) == trimEnd(trimStart(s))

\* the suffixes array of extractLocation, in its order
suffixes ==
  <<<<"T","e","m","p","e","r","a","t","u","r","e">>,
    <<"t","e","m","p","e","r","a","t","u","r","e">>,
    <<"H","u","m","i","d","i","t","y">>,
    <<"h","u","m","i","d","i","t","y">>,
    <<"B","a","t","t","e","r","y">>,
    <<"b","a","t","t","e","r","y">>,
    <<"p","o","w","e","r">>>>

RECURSIVE extractLocationFrom(_, _)
extractLocationFrom(friendlyName, k) ==
  IF k > Len(suffixes) THEN trim(friendlyName)
  ELSE LET index == lastIndexOf(friendlyName, <<" ">> \o suffixes[k])
       IN IF index # 0 - 1
          THEN trim(substring(friendlyName, 0, index))
          ELSE extractLocationFrom(friendlyName, k + 1)

\* extractLocation (sensorGrouping.ts:28-39)
extractLocation(friendlyName) == extractLocationFrom(friendlyName, 1)

\* \w of a regular expression without the u flag
IsWordChar(c) == IsUpper(c) \/ IsLower(c) \/ IsDigit(c) \/ c = "_"

\* \b at the gap before character k of s
WordBoundary(s, k) ==
  LET before == k - 1 >= 1 /\ k - 1 <= Len(s) /\ IsWordChar(s[k - 1])
      after  == k >= 1 /\ k <= Len(s) /\ IsWordChar(s[k])
  IN before # after

countries == {<<"s","w","e","d","e","n">>, <<"c","h","i","n","a">>, <<"g","e","r","m","a","n","y">>}

\* /\bof\b.*\b(sweden|china|germany)\b/i
MatchesOfCountry(location) ==
  LET s == toLowerCase(location)
  IN \E i \in 1..Len(s) :
       /\ OccursAt(s, <<"o","f">>, i)
       /\ WordBoundary(s, i)
       /\ WordBoundary(s, i + 2)
       /\ \E j \in (i + 2)..Len(s) :
            \E c \in countries :
              /\ OccursAt(s, c, j)
              /\ WordBoundary(s, j)
              /\ WordBoundary(s, j + Len(c))

\* isDeviceName as it would be without the /sensor/i pattern
isDeviceNameWithoutSensorPattern(location) ==
  LET lower == toLowerCase(location)
  IN \/ StartsWith(lower, <<"i","k","e","a">>)
     \/ Includes(lower, <<"d","i","m","m","e","r">>)
     \/ MatchesOfCountry(location)

\* isDeviceName (sensorGrouping.ts:45-54): /^IKEA/i, /dimmer/i, /sensor/i
\* and the "of <country>" pattern
isDeviceName(location) ==
  LET lower == toLowerCase(location)
  IN \/ StartsWith(lower, <<"i","k","e","a">>)
     \/ Includes(lower, <<"d","i","m","m","e","r">>)
     \/ Includes(lower, <<"s","e","n","s","o","r">>)
     \/ MatchesOfCountry(location)

\* getSensorDataType (sensorGrouping.ts:59-67); "null" for no data type
getSensorDataType(friendlyName) ==
  LET lower == toLowerCase(friendlyName)
  IN IF Includes(lower, temperatureStr) THEN "temperature"
     ELSE IF Includes(lower, humidityStr) THEN "humidity"
     ELSE IF Includes(lower, <<"b","a","t","t","e","r","y">>) \/ Includes(lower, <<"p","o","w","e","r">>)
     THEN "battery"
     ELSE "null"

\* String.prototype.localeCompare on the characters of this model: the
\* primary weight of a character (space, punctuation, digits, then letters
\* whatever their case)
PrimaryWeight(c) ==
  IF c = " " THEN 1
  ELSE IF c = "_" THEN 2
  ELSE IF c = "." THEN 3
  ELSE IF IsDigit(c) THEN 4 + DigitValue(c)
  ELSE IF IsLower(LowerOf(c))
  THEN 14 + (CHOOSE k \in 1..Len(LowerCase) : LowerCase[k] = LowerOf(c))
  ELSE 41

RECURSIVE comparePrimary(_, _)
comparePrimary(a, b) ==
  IF a = <<>> /\ b = <<>> THEN 0
  ELSE IF a = <<>> THEN 0 - 1
  ELSE IF b = <<>> THEN 1
  ELSE IF PrimaryWeight(Head(a)) < PrimaryWeight(Head(b)) THEN 0 - 1
  ELSE IF PrimaryWeight(Head(a)) > PrimaryWeight(Head(b)) THEN 1
  ELSE comparePrimary(Tail(a), Tail(b))

\* strings of equal primary weights: lower case sorts before upper case
RECURSIVE compareCase(_, _)
compareCase(a, b) ==
  IF a = <<>> \/ b = <<>> THEN 0
  ELSE IF IsLower(Head(a)) /\ IsUpper(Head(b)) THEN 0 - 1
  ELSE IF IsUpper(Head(a)) /\ IsLower(Head(b)) THEN 1
  ELSE compareCase(Tail(a), Tail(b))

localeCompare(a, b) ==
  IF comparePrimary(a, b) # 0 THEN comparePrimary(a, b) ELSE compareCase(a, b)

\* Array.prototype.sort((a, b) => a.location.localeCompare(b.location)),
\* a stable sort: g goes after every group that does not sort after it
RECURSIVE insertByLocation(_, _)
insertByLocation(sorted, g) ==
  IF sorted = <<>> THEN <<g>>
  ELSE IF localeCompare(Head(sorted).location, g.location) <= 0
  THEN <<Head(sorted)>> \o insertByLocation(Tail(sorted), g)
  ELSE <<g>> \o sorted

RECURSIVE sortByLocation(_)
sortByLocation(groups) ==
  IF groups = <<>> THEN <<>>
  ELSE insertByLocation(sortByLocation(SubSeq(groups, 1, Len(groups) - 1)),
                        groups[Len(groups)])

\* the status of a group after a member of the given status joined it, as
\* it would be were the member's status simply assigned
mergeStatusLastWins(groupStatus, sensorStatus) == sensorStatus

\* the status of a group after a member of the given status joined it
\* (sensorGrouping.ts:110-115)
mergeStatus(groupStatus, sensorStatus) ==
  IF sensorStatus = "error" THEN "error"
  ELSE IF sensorStatus = "offline" /\ groupStatus # "error" THEN "offline"
  ELSE groupStatus

\* the lastSeen of a group after a member joined it, as it would be were
\* the member's lastSeen simply assigned
mergeLastSeenLastWins(groupLastSeen, sensorLastSeen) == sensorLastSeen

\* the lastSeen of a group after a member joined it
\* (sensorGrouping.ts:105-108)
mergeLastSeen(groupLastSeen, sensorLastSeen) ==
  IF sensorLastSeen > groupLastSeen THEN sensorLastSeen ELSE groupLastSeen

\* groupOneSensor as it would be were the reading looked up by entity id
groupOneSensorByEntityId(groups, sensor, latestReadings) ==
  LET location == extractLocation(sensor.friendlyName)
      dataType == getSensorDataType(sensor.friendlyName)
      found    == {k \in 1..Len(groups) : groups[k].location = location}
      created  == [location |-> location, sensorIds |-> <<>>,
                   temperature |-> Null, humidity |-> Null, battery |-> Null,
                   lastSeen |-> sensor.lastSeen, status |-> sensor.status]
      all      == IF found = {} THEN Append(groups, created) ELSE groups
      k        == IF found = {} THEN Len(all) ELSE CHOOSE x \in found : TRUE
      group    == all[k]
      hasReading == sensor.entityId \in DOMAIN latestReadings
      merged   ==
        [location |-> group.location,
         sensorIds |-> Append(group.sensorIds, sensor.id),
         temperature |-> IF hasReading /\ dataType = "temperature"
                         THEN latestReadings[sensor.entityId].temperature
                         ELSE group.temperature,
         humidity |-> IF hasReading /\ dataType = "humidity"
                      THEN latestReadings[sensor.entityId].humidity
                      ELSE group.humidity,
         battery |-> IF hasReading /\ dataType = "battery"
                     THEN latestReadings[sensor.entityId].humidity
                     ELSE group.battery,
         lastSeen |-> mergeLastSeen(group.lastSeen, sensor.lastSeen),
         status |-> mergeStatus(group.status, sensor.status)]
  IN IF isDeviceName(location) THEN groups
     ELSE [all EXCEPT ![k] = merged]

\* groupOneSensor as it would be were the value of the member's kind
\* assigned whether or not the member has a reading
groupOneSensorClearingValues(groups, sensor, latestReadings) ==
  LET location == extractLocation(sensor.friendlyName)
      dataType == getSensorDataType(sensor.friendlyName)
      found    == {k \in 1..Len(groups) : groups[k].location = location}
      created  == [location |-> location, sensorIds |-> <<>>,
                   temperature |-> Null, humidity |-> Null, battery |-> Null,
                   lastSeen |-> sensor.lastSeen, status |-> sensor.status]
      all      == IF found = {} THEN Append(groups, created) ELSE groups
      k        == IF found = {} THEN Len(all) ELSE CHOOSE x \in found : TRUE
      group    == all[k]
      hasReading == sensor.id \in DOMAIN latestReadings
      merged   ==
        [location |-> group.location,
         sensorIds |-> Append(group.sensorIds, sensor.id),
         temperature |-> IF dataType = "temperature"
                         THEN (IF hasReading THEN latestReadings[sensor.id].temperature
                               ELSE Null)
                         ELSE group.temperature,
         humidity |-> IF dataType = "humidity"
                      THEN (IF hasReading THEN latestReadings[sensor.id].humidity
                            ELSE Null)
                      ELSE group.humidity,
         battery |-> IF dataType = "battery"
                     THEN (IF hasReading THEN latestReadings[sensor.id].humidity
                           ELSE Null)
                     ELSE group.battery,
         lastSeen |-> mergeLastSeen(group.lastSeen, sensor.lastSeen),
         status |-> mergeStatus(group.status, sensor.status)]
  IN IF isDeviceName(location) THEN groups
     ELSE [all EXCEPT ![k] = merged]

\* groupOneSensor as it would be were the group of a location created
\* before the device-name filter is asked
groupOneSensorCreatingFirst(groups, sensor, latestReadings) ==
  LET location == extractLocation(sensor.friendlyName)
      dataType == getSensorDataType(sensor.friendlyName)
      found    == {k \in 1..Len(groups) : groups[k].location = location}
      created  == [location |-> location, sensorIds |-> <<>>,
                   temperature |-> Null, humidity |-> Null, battery |-> Null,
                   lastSeen |-> sensor.lastSeen, status |-> sensor.status]
      all      == IF found = {} THEN Append(groups, created) ELSE groups
      k        == IF found = {} THEN Len(all) ELSE CHOOSE x \in found : TRUE
      group    == all[k]
      hasReading == sensor.id \in DOMAIN latestReadings
      merged   ==
        [location |-> group.location,
         sensorIds |-> Append(group.sensorIds, sensor.id),
         temperature |-> IF hasReading /\ dataType = "temperature"
                         THEN latestReadings[sensor.id].temperature
                         ELSE group.temperature,
         humidity |-> IF hasReading /\ dataType = "humidity"
                      THEN latestReadings[sensor.id].humidity
                      ELSE group.humidity,
         battery |-> IF hasReading /\ dataType = "battery"
                     THEN latestReadings[sensor.id].humidity
                     ELSE group.battery,
         lastSeen |-> mergeLastSeen(group.lastSeen, sensor.lastSeen),
         status |-> mergeStatus(group.status, sensor.status)]
  IN IF isDeviceName(location) THEN all
     ELSE [all EXCEPT ![k] = merged]

\* groupOneSensor as it would be were a value assigned only from a reading
\* that has the field
groupOneSensorKeepingDefined(groups, sensor, latestReadings) ==
  LET location == extractLocation(sensor.friendlyName)
      dataType == getSensorDataType(sensor.friendlyName)
      found    == {k \in 1..Len(groups) : groups[k].location = location}
      created  == [location |-> location, sensorIds |-> <<>>,
                   temperature |-> Null, humidity |-> Null, battery |-> Null,
                   lastSeen |-> sensor.lastSeen, status |-> sensor.status]
      all      == IF found = {} THEN Append(groups, created) ELSE groups
      k        == IF found = {} THEN Len(all) ELSE CHOOSE x \in found : TRUE
      group    == all[k]
      hasReading == sensor.id \in DOMAIN latestReadings
      merged   ==
        [location |-> group.location,
         sensorIds |-> Append(group.sensorIds, sensor.id),
         temperature |-> IF hasReading /\ dataType = "temperature"
                            /\ latestReadings[sensor.id].temperature # Null
                         THEN latestReadings[sensor.id].temperature
                         ELSE group.temperature,
         humidity |-> IF hasReading /\ dataType = "humidity"
                            /\ latestReadings[sensor.id].humidity # Null
                      THEN latestReadings[sensor.id].humidity
                      ELSE group.humidity,
         battery |-> IF hasReading /\ dataType = "battery"
                            /\ latestReadings[sensor.id].humidity # Null
                     THEN latestReadings[sensor.id].humidity
                     ELSE group.battery,
         lastSeen |-> mergeLastSeen(group.lastSeen, sensor.lastSeen),
         status |-> mergeStatus(group.status, sensor.status)]
  IN IF isDeviceName(location) THEN groups
     ELSE [all EXCEPT ![k] = merged]

\* the body of the loop of groupSensorsByLocation for one sensor
\* (sensorGrouping.ts:78-128); groups is the Map's values in insertion order
groupOneSensor(groups, sensor, latestReadings) ==
  LET location == extractLocation(sensor.friendlyName)
      dataType == getSensorDataType(sensor.friendlyName)
      found    == {k \in 1..Len(groups) : groups[k].location = location}
      created  == [location |-> location, sensorIds |-> <<>>,
                   temperature |-> Null, humidity |-> Null, battery |-> Null,
                   lastSeen |-> sensor.lastSeen, status |-> sensor.status]
      all      == IF found = {} THEN Append(groups, created) ELSE groups
      k        == IF found = {} THEN Len(all) ELSE CHOOSE x \in found : TRUE
      group    == all[k]
      hasReading == sensor.id \in DOMAIN latestReadings
      merged   ==
        [location |-> group.location,
         sensorIds |-> Append(group.sensorIds, sensor.id),
         temperature |-> IF hasReading /\ dataType = "temperature"
                         THEN latestReadings[sensor.id].temperature
                         ELSE group.temperature,
         humidity |-> IF hasReading /\ dataType = "humidity"
                      THEN latestReadings[sensor.id].humidity
                      ELSE group.humidity,
         battery |-> IF hasReading /\ dataType = "battery"
                     THEN latestReadings[sensor.id].humidity
                     ELSE group.battery,
         lastSeen |-> mergeLastSeen(group.lastSeen, sensor.lastSeen),
         status |-> mergeStatus(group.status, sensor.status)]
  IN IF isDeviceName(location) THEN groups
     ELSE [all EXCEPT ![k] = merged]

RECURSIVE groupFrom(_, _, _)
groupFrom(groups, sensors, latestReadings) ==
  IF sensors = <<>> THEN groups
  ELSE groupFrom(groupOneSensor(groups, Head(sensors), latestReadings),
                 Tail(sensors), latestReadings)

\* groupSensorsByLocation as it would be without the final sort
groupSensorsByLocationUnsorted(sensors, latestReadings) ==
  groupFrom(<<>>, sensors, latestReadings)

\* groupSensorsByLocation (sensorGrouping.ts:72-133)
groupSensorsByLocation(sensors, latestReadings) ==
  sortByLocation(groupFrom(<<>>, sensors, latestReadings))

\* ------------------------------------------------------------ worker state
VARIABLES
  mainPc,                 \* position of main(): start, discover, collect,
                          \*   collecting, armed, failed
  shutdownPc,             \* position of shutdown(): idle, closing, done
  exitCode,               \* "running", or the code the process exited with
  collectionIntervalId,   \* "null", "armed" or "cleared"
  rediscoveryIntervalId,
  cleanupIntervalId,
  currentSensors,         \* the roster
  passes,                 \* collectData calls in flight, by call number
  passesStarted,
  discoveries,            \* discoverAndStoreSensors calls in flight
  discStarted,
  cleanups,               \* cleanupOldData calls in flight
  cleanupsStarted,
  cleanupsFailed,         \* "Cleanup failed" errors logged
  pool,                   \* the connection pool: open or ending
  dbSensors,              \* table sensors, by primary key
  dbReadings,             \* table sensor_readings, a bag of rows
  data,                   \* the Map of an in-memory store, by sensor id
  call,                   \* the store call made last, and what it returned
  isInitialized,          \* server.init.ts: the module variable
  backgroundService,      \* server.init.ts: Null, or the number of a service
  services,               \* the BackgroundDataCollectionService objects made
  timers,                 \* the intervals set in the server process
  inits,                  \* initializeServer calls, by call number
  tasks,                  \* promises the server process is waiting for
  ticks,                  \* interval callbacks the server process has run
  shutdowns               \* shutdownServer calls the server process has run

timerVars == <<collectionIntervalId, rediscoveryIntervalId, cleanupIntervalId>>
passVars == <<passes, passesStarted>>
discVars == <<discoveries, discStarted>>
cleanVars == <<cleanups, cleanupsStarted, cleanupsFailed>>
dbVars == <<pool, dbSensors, dbReadings>>

storeVars == <<data, call>>
serverVars == <<isInitialized, backgroundService, services, timers, inits,
                tasks, ticks, shutdowns>>

vars == <<mainPc, shutdownPc, exitCode, timerVars, currentSensors,
          passVars, discVars, cleanVars, dbVars, storeVars, serverVars>>

Running == exitCode = "running"

\* the server process before server.init.ts is loaded
ServerNotLoaded ==
  /\ isInitialized = FALSE
  /\ backgroundService = {}
  /\ services = <<>>
  /\ timers = <<>>
  /\ inits = <<>>
  /\ tasks = <<>>
  /\ ticks = 0
  /\ shutdowns = 0

\* f without the key k
Without(f, k) == [x \in DOMAIN f \ {k} |-> f[x]]

Init ==
  /\ mainPc = "start"
  /\ shutdownPc = "idle"
  /\ exitCode = "running"
  /\ collectionIntervalId = "null"
  /\ rediscoveryIntervalId = "null"
  /\ cleanupIntervalId = "null"
  /\ currentSensors = <<>>
  /\ passes = <<>>
  /\ passesStarted = 0
  /\ discoveries = <<>>
  /\ discStarted = 0
  /\ cleanups = <<>>
  /\ cleanupsStarted = 0
  /\ cleanupsFailed = 0
  /\ ServerNotLoaded
  /\ pool = "open"
  /\ dbSensors = <<>>
  /\ dbReadings = EmptyBag
  /\ data = <<>>
  /\ call = [op |-> "none"]

\* ------------------------------------------------------- collection pass
\* collectData up to its await of Promise.all: every sensor of the roster
\* read at this moment gets its own fetchAndStoreSensorData call
\*   fetch[i]: pending, inserting, ok, fetchFailed, invalid, writeFailed
\*   rd[i]: the reading whose insert is in flight
\*   rosterRead: the rosters the pass has read from currentSensors
NewPass(roster) ==
  [roster |-> roster,
   fetch |-> [i \in 1..Len(roster) |-> "pending"],
   rd |-> [i \in 1..Len(roster) |-> <<>>],
   phase |-> "fanout",
   rosterRead |-> {roster}]

\* a call of collectData (worker/index.ts:150-160); with an empty roster it
\* returns at once
collectData ==
  /\ passesStarted < MaxPasses
  /\ passesStarted' = passesStarted + 1
  /\ passes' = IF Len(currentSensors) = 0
               THEN passes
               ELSE passes @@ ((passesStarted + 1) :> NewPass(currentSensors))

\* AllResolved as it would be were Promise.all to wait until every fetch
\* has succeeded
AllResolvedOnSuccess(pass) ==
  \A i \in 1..Len(pass.roster) : pass.fetch[i] = "ok"

\* Promise.all over calls that never reject (worker/index.ts:157-159)
\* resolves once none of them is pending
AllResolved(pass) ==
  \A i \in 1..Len(pass.roster) : pass.fetch[i] \notin {"pending", "inserting"}

\* collectData after Promise.all has resolved (worker/index.ts:162-167):
\* the summary line reads the roster again, then getReadingCount is called
AfterPromiseAll(pass) ==
  IF AllResolved(pass)
  THEN [pass EXCEPT !.rosterRead = @ \cup {currentSensors},
                    !.phase = "counting"]
  ELSE pass

\* one fetchAndStoreSensorData call of pass p settles with the given status
Settle(p, i, status, rd) ==
  passes' = [passes EXCEPT ![p] =
               AfterPromiseAll([@ EXCEPT !.fetch[i] = status, !.rd[i] = rd])]

\* getSensorState resolved (worker/index.ts:116-138): parse, build the
\* reading, call insertReading (on an ending pool the query rejects at once)
FetchOk(p, i, str, lastUpdated) ==
  /\ Running
  /\ UNCHANGED <<storeVars, serverVars>>
  /\ p \in DOMAIN passes
  /\ i \in 1..Len(passes[p].roster)
  /\ passes[p].fetch[i] = "pending"
  /\ LET sensor == passes[p].roster[i]
         state == [entity_id |-> sensor.entityId, state |-> str,
                   last_updated |-> lastUpdated]
         value == parseFloat(state.state)
     IN IF value.nan
        THEN Settle(p, i, "invalid", <<>>)
        ELSE IF pool = "open"
        THEN Settle(p, i, "inserting", <<BuildReading(sensor, state, value.value)>>)
        ELSE Settle(p, i, "writeFailed", <<>>)
  /\ UNCHANGED <<mainPc, shutdownPc, exitCode, timerVars, currentSensors,
                 passesStarted, discVars, cleanVars, dbVars>>

\* FetchFail as it would be were the rejection not caught per sensor: the
\* sibling fetches still pending are given up
FetchFailAbortsSiblings(p, i) ==
  /\ Running
  /\ UNCHANGED <<storeVars, serverVars>>
  /\ p \in DOMAIN passes
  /\ i \in 1..Len(passes[p].roster)
  /\ passes[p].fetch[i] = "pending"
  /\ passes' = [passes EXCEPT ![p] =
       AfterPromiseAll([@ EXCEPT !.fetch =
         [j \in 1..Len(passes[p].roster) |->
            IF j = i THEN "fetchFailed"
            ELSE IF passes[p].fetch[j] = "pending" THEN "aborted"
            ELSE passes[p].fetch[j]]])]
  /\ UNCHANGED <<mainPc, shutdownPc, exitCode, timerVars, currentSensors,
                 passesStarted, discVars, cleanVars, dbVars>>

\* getSensorState rejected (worker/index.ts:141-144)
FetchFail(p, i) ==
  /\ Running
  /\ UNCHANGED <<storeVars, serverVars>>
  /\ p \in DOMAIN passes
  /\ i \in 1..Len(passes[p].roster)
  /\ passes[p].fetch[i] = "pending"
  /\ Settle(p, i, "fetchFailed", <<>>)
  /\ UNCHANGED <<mainPc, shutdownPc, exitCode, timerVars, currentSensors,
                 passesStarted, discVars, cleanVars, dbVars>>

\* insertReading resolved (worker/index.ts:138-140)
InsertOk(p, i) ==
  /\ Running
  /\ UNCHANGED <<storeVars, serverVars>>
  /\ p \in DOMAIN passes
  /\ i \in 1..Len(passes[p].roster)
  /\ passes[p].fetch[i] = "inserting"
  /\ at_least_one_value(ReadingRow(passes[p].rd[i][1]))
  /\ dbReadings' = insertReading(dbReadings, passes[p].rd[i][1])
  /\ Settle(p, i, "ok", <<>>)
  /\ UNCHANGED <<mainPc, shutdownPc, exitCode, timerVars, currentSensors,
                 passesStarted, discVars, cleanVars, pool, dbSensors>>

\* insertReading rejected (worker/index.ts:141-144)
InsertFail(p, i) ==
  /\ Running
  /\ UNCHANGED <<storeVars, serverVars>>
  /\ p \in DOMAIN passes
  /\ i \in 1..Len(passes[p].roster)
  /\ passes[p].fetch[i] = "inserting"
  /\ Settle(p, i, "writeFailed", <<>>)
  /\ UNCHANGED <<mainPc, shutdownPc, exitCode, timerVars, currentSensors,
                 passesStarted, discVars, cleanVars, dbVars>>

\* getReadingCount resolved or rejected, collectData returns
\* (worker/index.ts:166-173)
CountDone(p) ==
  /\ Running
  /\ UNCHANGED <<storeVars, serverVars>>
  /\ p \in DOMAIN passes
  /\ passes[p].phase = "counting"
  /\ passes' = Without(passes, p)
  /\ UNCHANGED <<mainPc, shutdownPc, exitCode, timerVars, currentSensors,
                 passesStarted, discVars, cleanVars, dbVars>>

\* ------------------------------------------------------------- discovery
\* a call of discoverAndStoreSensors, up to the getAllStates call of
\* discoverSensors (worker/index.ts:85-91, migrate.ts:121-123)
\*   phase: fetching, discovered, upserting, rejected
\*   calls: the getAllStates calls made
\*   response, result: what getAllStates and discoverSensors settled with
discoverAndStoreSensors(kind) ==
  /\ discStarted < MaxDiscoveries
  /\ discStarted' = discStarted + 1
  /\ discoveries' = discoveries @@
       ((discStarted + 1) :> [kind |-> kind, phase |-> "fetching", calls |-> 1,
                              response |-> <<>>, result |-> <<>>,
                              sensors |-> <<>>, idx |-> 0])

\* getAllStates settled with the given response, and discoverSensors with
\* it (migrate.ts:121-135)
GetAllStatesSettled(d, response) ==
  /\ Running
  /\ UNCHANGED <<storeVars, serverVars>>
  /\ d \in DOMAIN discoveries
  /\ discoveries[d].phase = "fetching"
  /\ discoveries' = [discoveries EXCEPT ![d] =
       [@ EXCEPT !.phase = "discovered",
                 !.response = <<response>>,
                 !.result = <<discoverSensors(response)>>]]
  /\ UNCHANGED <<mainPc, shutdownPc, exitCode, timerVars, currentSensors,
                 passVars, discStarted, cleanVars, dbVars>>

GetAllStatesOk(d, snapshot) ==
  GetAllStatesSettled(d, [ok |-> TRUE, states |-> snapshot])

GetAllStatesFail(d, error) ==
  GetAllStatesSettled(d, [ok |-> FALSE, error |-> error])

\* DiscoveryReturns as it would be were the readings of the sensors dropped
\* from the roster deleted with them
DiscoveryReturnsPruning(d, sensors) ==
  /\ discoveries' = Without(discoveries, d)
  /\ currentSensors' = sensors
  /\ mainPc' = IF discoveries[d].kind = "initial" THEN "collect" ELSE mainPc
  /\ dbReadings' =
       LET kept == {r \in BagToSet(dbReadings) :
                      \E i \in 1..Len(sensors) : sensors[i].id = r.sensor_id}
       IN [r \in kept |-> dbReadings[r]]

\* discoverAndStoreSensors returns its sensors to its caller: main assigns
\* the roster and goes on (worker/index.ts:234), the rediscovery callback
\* assigns the roster (worker/index.ts:253)
DiscoveryReturns(d, sensors) ==
  /\ discoveries' = Without(discoveries, d)
  /\ currentSensors' = sensors
  /\ mainPc' = IF discoveries[d].kind = "initial" THEN "collect" ELSE mainPc
  /\ dbReadings' = dbReadings

\* discoverAndStoreSensors rethrows (worker/index.ts:102-105): in main the
\* rejection reaches main().catch (worker/index.ts:271), in the
\* rediscovery callback it rejects the callback's promise
DiscoveryThrows(d) ==
  /\ discoveries' =
       IF discoveries[d].kind = "initial"
       THEN Without(discoveries, d)
       ELSE [discoveries EXCEPT ![d] =
               [@ EXCEPT !.phase = "rejected", !.response = <<>>,
                         !.result = <<>>, !.sensors = <<>>, !.idx = 0]]
  /\ currentSensors' = currentSensors
  /\ mainPc' = IF discoveries[d].kind = "initial" THEN "failed" ELSE mainPc
  /\ dbReadings' = dbReadings

\* UpsertFrom as it would be were the roster assigned before the upsert loop
UpsertFromInstallingFirst(d, sensors, idx) ==
  IF idx > Len(sensors)
  THEN DiscoveryReturns(d, sensors)
  ELSE IF pool = "open"
  THEN /\ discoveries' = [discoveries EXCEPT ![d] =
            [@ EXCEPT !.phase = "upserting", !.response = <<>>, !.result = <<>>,
                      !.sensors = sensors, !.idx = idx]]
       /\ currentSensors' = sensors
       /\ UNCHANGED <<mainPc, dbReadings>>
  ELSE DiscoveryThrows(d)

\* the upsert loop reaches sensor number idx (worker/index.ts:95-101): past
\* the end it returns; on an ending pool the query rejects at once
UpsertFrom(d, sensors, idx) ==
  IF idx > Len(sensors)
  THEN DiscoveryReturns(d, sensors)
  ELSE IF pool = "open"
  THEN /\ discoveries' = [discoveries EXCEPT ![d] =
            [@ EXCEPT !.phase = "upserting", !.response = <<>>, !.result = <<>>,
                      !.sensors = sensors, !.idx = idx]]
       /\ UNCHANGED <<currentSensors, mainPc, dbReadings>>
  ELSE DiscoveryThrows(d)

\* discoverSensors has settled: discoverAndStoreSensors goes on
\* (worker/index.ts:91-96)
Discovered(d) ==
  /\ Running
  /\ UNCHANGED <<storeVars, serverVars>>
  /\ d \in DOMAIN discoveries
  /\ discoveries[d].phase = "discovered"
  /\ IF discoveries[d].result[1].threw
     THEN DiscoveryThrows(d)
     ELSE UpsertFrom(d, discoveries[d].result[1].sensors, 1)
  /\ UNCHANGED <<shutdownPc, exitCode, timerVars, passVars, discStarted,
                 cleanVars, pool, dbSensors>>

\* upsertSensor resolved (worker/index.ts:96-98)
UpsertOk(d) ==
  /\ Running
  /\ UNCHANGED <<storeVars, serverVars>>
  /\ d \in DOMAIN discoveries
  /\ discoveries[d].phase = "upserting"
  /\ dbSensors' = upsertSensor(dbSensors, discoveries[d].sensors[discoveries[d].idx])
  /\ UpsertFrom(d, discoveries[d].sensors, discoveries[d].idx + 1)
  /\ UNCHANGED <<shutdownPc, exitCode, timerVars, passVars, discStarted,
                 cleanVars, pool>>

\* upsertSensor rejected (worker/index.ts:102-105)
UpsertFail(d) ==
  /\ Running
  /\ UNCHANGED <<storeVars, serverVars>>
  /\ d \in DOMAIN discoveries
  /\ discoveries[d].phase = "upserting"
  /\ DiscoveryThrows(d)
  /\ UNCHANGED <<shutdownPc, exitCode, timerVars, passVars, discStarted,
                 cleanVars, pool, dbSensors>>

\* the promise of the rediscovery callback was rejected and nothing handles
\* it (worker/index.ts:251-254): the runtime (Node.js 20) ends the process
UnhandledRejection(d) ==
  /\ Running
  /\ UNCHANGED <<storeVars, serverVars>>
  /\ d \in DOMAIN discoveries
  /\ discoveries[d].phase = "rejected"
  /\ exitCode' = "1"
  /\ UNCHANGED <<mainPc, shutdownPc, timerVars, currentSensors,
                 passVars, discVars, cleanVars, dbVars>>

\* ------------------------------------------------------------- retention
\* a call of cleanupOldData up to its await (worker/index.ts:178-185); on
\* an ending pool the query rejects at once and the error is logged
\*   phase: deleting, deleted
\*   before, deletedCount: the table the delete ran on, the count it returned
cleanupOldData(today) ==
  /\ cleanupsStarted' = cleanupsStarted + 1
  /\ cleanups' =
       IF pool = "open"
       THEN cleanups @@
              ((cleanupsStarted + 1) :> [phase |-> "deleting",
                                         cutoffDate |-> today - RETENTION_DAYS,
                                         before |-> EmptyBag,
                                         deletedCount |-> 0])
       ELSE cleanups
  /\ cleanupsFailed' = IF pool = "open" THEN cleanupsFailed ELSE cleanupsFailed + 1

\* deleteOldReadings resolved (readingRepository.ts:153-164)
DeleteDone(c) ==
  /\ Running
  /\ UNCHANGED <<storeVars, serverVars>>
  /\ c \in DOMAIN cleanups
  /\ cleanups[c].phase = "deleting"
  /\ LET r == deleteOldReadings(dbReadings, cleanups[c].cutoffDate)
     IN /\ dbReadings' = r.table
        /\ cleanups' = [cleanups EXCEPT ![c] =
             [@ EXCEPT !.phase = "deleted", !.before = dbReadings,
                       !.deletedCount = r.rowCount]]
  /\ UNCHANGED <<mainPc, shutdownPc, exitCode, timerVars, currentSensors,
                 passVars, discVars, cleanupsStarted, cleanupsFailed, pool,
                 dbSensors>>

\* DeleteFail as it would be were the retention timer cleared on a failure
DeleteFailStopsTimer(c) ==
  /\ Running
  /\ UNCHANGED <<storeVars, serverVars>>
  /\ c \in DOMAIN cleanups
  /\ cleanups[c].phase = "deleting"
  /\ cleanups' = Without(cleanups, c)
  /\ cleanupsFailed' = cleanupsFailed + 1
  /\ cleanupIntervalId' = "cleared"
  /\ UNCHANGED <<mainPc, shutdownPc, exitCode, collectionIntervalId,
                 rediscoveryIntervalId, currentSensors,
                 passVars, discVars, cleanupsStarted, dbVars>>

\* deleteOldReadings rejected: logged, cleanupOldData returns
\* (worker/index.ts:192-194)
DeleteFail(c) ==
  /\ Running
  /\ UNCHANGED <<storeVars, serverVars>>
  /\ c \in DOMAIN cleanups
  /\ cleanups[c].phase = "deleting"
  /\ cleanups' = Without(cleanups, c)
  /\ cleanupsFailed' = cleanupsFailed + 1
  /\ UNCHANGED <<mainPc, shutdownPc, exitCode, timerVars, currentSensors,
                 passVars, discVars, cleanupsStarted, dbVars>>

\* the count is logged, cleanupOldData returns (worker/index.ts:187-191)
CleanupReturns(c) ==
  /\ Running
  /\ UNCHANGED <<storeVars, serverVars>>
  /\ c \in DOMAIN cleanups
  /\ cleanups[c].phase = "deleted"
  /\ cleanups' = Without(cleanups, c)
  /\ UNCHANGED <<mainPc, shutdownPc, exitCode, timerVars, currentSensors,
                 passVars, discVars, cleanupsStarted, cleanupsFailed, dbVars>>

\* ------------------------------------------------------------------ main
\* main() calls the initial discovery (worker/index.ts:218-234)
MainDiscover ==
  /\ Running
  /\ UNCHANGED <<storeVars, serverVars>>
  /\ mainPc = "start"
  /\ mainPc' = "discover"
  /\ discoverAndStoreSensors("initial")
  /\ UNCHANGED <<shutdownPc, exitCode, timerVars, currentSensors,
                 passVars, cleanVars, dbVars>>

\* main() calls the initial collectData (worker/index.ts:236-241)
MainCollect ==
  /\ Running
  /\ UNCHANGED <<storeVars, serverVars>>
  /\ mainPc = "collect"
  /\ mainPc' = "collecting"
  /\ collectData
  /\ UNCHANGED <<shutdownPc, exitCode, timerVars, currentSensors,
                 discVars, cleanVars, dbVars>>

\* MainArm as it would be were the initial collectData not awaited
MainArmNoAwait ==
  /\ Running
  /\ UNCHANGED <<storeVars, serverVars>>
  /\ mainPc = "collecting"
  /\ mainPc' = "armed"
  /\ collectionIntervalId' = "armed"
  /\ rediscoveryIntervalId' = "armed"
  /\ cleanupIntervalId' = "armed"
  /\ UNCHANGED <<shutdownPc, exitCode, currentSensors,
                 passVars, discVars, cleanVars, dbVars>>

\* the initial collectData has returned: main() arms the three timers and
\* registers the signal handlers (worker/index.ts:241-266)
MainArm ==
  /\ Running
  /\ UNCHANGED <<storeVars, serverVars>>
  /\ mainPc = "collecting"
  /\ passes = <<>>
  /\ mainPc' = "armed"
  /\ collectionIntervalId' = "armed"
  /\ rediscoveryIntervalId' = "armed"
  /\ cleanupIntervalId' = "armed"
  /\ UNCHANGED <<shutdownPc, exitCode, currentSensors,
                 passVars, discVars, cleanVars, dbVars>>

\* main().catch: closePool, then process.exit(1) (worker/index.ts:271-275)
MainFatal ==
  /\ Running
  /\ UNCHANGED <<storeVars, serverVars>>
  /\ mainPc = "failed"
  /\ pool' = "ending"
  /\ exitCode' = "1"
  /\ UNCHANGED <<mainPc, shutdownPc, timerVars, currentSensors,
                 passVars, discVars, cleanVars, dbSensors, dbReadings>>

\* ---------------------------------------------------------------- timers
\* CollectionTick as it would be were a tick skipped while a pass is in
\* flight
CollectionTickSkippingOverlap ==
  /\ Running
  /\ UNCHANGED <<storeVars, serverVars>>
  /\ collectionIntervalId = "armed"
  /\ passes = <<>>
  /\ collectData
  /\ UNCHANGED <<mainPc, shutdownPc, exitCode, timerVars, currentSensors,
                 discVars, cleanVars, dbVars>>

\* the collection interval fires (worker/index.ts:245-247)
CollectionTick ==
  /\ Running
  /\ UNCHANGED <<storeVars, serverVars>>
  /\ collectionIntervalId = "armed"
  /\ collectData
  /\ UNCHANGED <<mainPc, shutdownPc, exitCode, timerVars, currentSensors,
                 discVars, cleanVars, dbVars>>

\* RediscoveryTick as it would be were the ticks serialised behind the
\* collection passes
RediscoveryTickAfterPasses ==
  /\ Running
  /\ UNCHANGED <<storeVars, serverVars>>
  /\ rediscoveryIntervalId = "armed"
  /\ passes = <<>>
  /\ discoverAndStoreSensors("timer")
  /\ UNCHANGED <<mainPc, shutdownPc, exitCode, timerVars, currentSensors,
                 passVars, cleanVars, dbVars>>

\* the rediscovery interval fires (worker/index.ts:251-254)
RediscoveryTick ==
  /\ Running
  /\ UNCHANGED <<storeVars, serverVars>>
  /\ rediscoveryIntervalId = "armed"
  /\ discoverAndStoreSensors("timer")
  /\ UNCHANGED <<mainPc, shutdownPc, exitCode, timerVars, currentSensors,
                 passVars, cleanVars, dbVars>>

\* the cleanup interval fires (worker/index.ts:258-260)
CleanupTick(today) ==
  /\ Running
  /\ UNCHANGED <<storeVars, serverVars>>
  /\ cleanupIntervalId = "armed"
  /\ cleanupsStarted < MaxCleanups
  /\ cleanupOldData(today)
  /\ UNCHANGED <<mainPc, shutdownPc, exitCode, timerVars, currentSensors,
                 passVars, discVars, dbVars>>

\* -------------------------------------------------------------- shutdown
\* a query of the pool is in flight
DbBusy ==
  \/ \E c \in DOMAIN cleanups : cleanups[c].phase = "deleting"
  \/ \E d \in DOMAIN discoveries : discoveries[d].phase = "upserting"
  \/ \E p \in DOMAIN passes :
       \E i \in 1..Len(passes[p].roster) : passes[p].fetch[i] = "inserting"

\* shutdown as it would be were the rediscovery interval not cleared
shutdownKeepsRediscovery ==
  /\ Running
  /\ UNCHANGED <<storeVars, serverVars>>
  /\ mainPc = "armed"
  /\ shutdownPc = "idle"
  /\ shutdownPc' = "closing"
  /\ collectionIntervalId' = "cleared"
  /\ rediscoveryIntervalId' = rediscoveryIntervalId
  /\ cleanupIntervalId' = "cleared"
  /\ pool' = "ending"
  /\ UNCHANGED <<mainPc, exitCode, currentSensors,
                 passVars, discVars, cleanVars, dbSensors, dbReadings>>

\* SIGTERM or SIGINT: shutdown() clears the intervals and calls closePool
\* (worker/index.ts:200-209)
shutdown ==
  /\ Running
  /\ UNCHANGED <<storeVars, serverVars>>
  /\ mainPc = "armed"
  /\ shutdownPc = "idle"
  /\ shutdownPc' = "closing"
  /\ collectionIntervalId' = "cleared"
  /\ rediscoveryIntervalId' = "cleared"
  /\ cleanupIntervalId' = "cleared"
  /\ pool' = "ending"
  /\ UNCHANGED <<mainPc, exitCode, currentSensors,
                 passVars, discVars, cleanVars, dbSensors, dbReadings>>

\* closePool resolved, once the pool has drained its queries in flight:
\* process.exit(0) (worker/index.ts:209-212)
ShutdownExit ==
  /\ Running
  /\ UNCHANGED <<storeVars, serverVars>>
  /\ shutdownPc = "closing"
  /\ ~DbBusy
  /\ shutdownPc' = "done"
  /\ exitCode' = "0"
  /\ UNCHANGED <<mainPc, timerVars, currentSensors,
                 passVars, discVars, cleanVars, dbVars>>

Next ==
  \/ MainDiscover
  \/ MainCollect
  \/ MainArm
  \/ MainFatal
  \/ CollectionTick
  \/ RediscoveryTick
  \/ \E today \in Clock : CleanupTick(today)
  \/ \E d \in 1..MaxDiscoveries, snapshot \in Snapshots : GetAllStatesOk(d, snapshot)
  \/ \E d \in 1..MaxDiscoveries, error \in FetchErrors : GetAllStatesFail(d, error)
  \/ \E d \in 1..MaxDiscoveries : Discovered(d)
  \/ \E d \in 1..MaxDiscoveries : UpsertOk(d)
  \/ \E d \in 1..MaxDiscoveries : UpsertFail(d)
  \/ \E d \in 1..MaxDiscoveries : UnhandledRejection(d)
  \/ \E p \in 1..MaxPasses, i \in 1..3, str \in StateStrings :
       \E lastUpdated \in LastUpdatedValues : FetchOk(p, i, str, lastUpdated)
  \/ \E p \in 1..MaxPasses, i \in 1..3 : FetchFail(p, i)
  \/ \E p \in 1..MaxPasses, i \in 1..3 : InsertOk(p, i)
  \/ \E p \in 1..MaxPasses, i \in 1..3 : InsertFail(p, i)
  \/ \E p \in 1..MaxPasses : CountDone(p)
  \/ \E c \in 1..MaxCleanups : DeleteDone(c)
  \/ \E c \in 1..MaxCleanups : DeleteFail(c)
  \/ \E c \in 1..MaxCleanups : CleanupReturns(c)
  \/ shutdown
  \/ ShutdownExit

Spec == Init /\ [][Next]_vars

\* a step of pass p: one of its calls to the source or to the database
\* returns or fails
PassStep(p) ==
  \/ \E i \in 1..3, str \in StateStrings :
       \E lastUpdated \in LastUpdatedValues : FetchOk(p, i, str, lastUpdated)
  \/ \E i \in 1..3 : FetchFail(p, i)
  \/ \E i \in 1..3 : InsertOk(p, i)
  \/ \E i \in 1..3 : InsertFail(p, i)
  \/ CountDone(p)

\* ------------------------------------ collection passes, followed on their own
\* the worker after its initial discovery has returned the sensors of the
\* first snapshot (worker/index.ts:234)
InitCollect ==
  /\ mainPc = "collect"
  /\ shutdownPc = "idle"
  /\ exitCode = "running"
  /\ collectionIntervalId = "null"
  /\ rediscoveryIntervalId = "null"
  /\ cleanupIntervalId = "null"
  /\ currentSensors = filterMapSensors(<<EntityTemp, EntityLight, EntityHum>>)
  /\ passes = <<>>
  /\ passesStarted = 0
  /\ discoveries = <<>>
  /\ discStarted = 1
  /\ cleanups = <<>>
  /\ cleanupsStarted = 0
  /\ cleanupsFailed = 0
  /\ ServerNotLoaded
  /\ pool = "open"
  /\ dbSensors = upsertSensor(upsertSensor(<<>>, mapStateToSensor(EntityTemp)),
                              mapStateToSensor(EntityHum))
  /\ dbReadings = EmptyBag
  /\ data = <<>>
  /\ call = [op |-> "none"]

\* the initial pass, the timers, the passes of the collection timer and a
\* shutdown, without rediscovery and retention ticks
NextCollect ==
  \/ MainCollect
  \/ MainArm
  \/ CollectionTick
  \/ \E p \in 1..MaxPasses : PassStep(p)
  \/ shutdown
  \/ ShutdownExit

\* every call a pass is waiting for returns or fails in the end
SpecCollect ==
  InitCollect /\ [][NextCollect]_vars /\ \A p \in 1..MaxPasses : WF_vars(PassStep(p))

\* ------------------------------------------- retention of a filled store
\* the readings a store can hold: the sensors t1 and h1, stamped 0..MaxStamp
StoredReadings ==
  [sensorId : {<<"t","1">>}, timestamp : 0..MaxStamp, temperature : {21}]
    \cup [sensorId : {<<"h","1">>}, timestamp : 0..MaxStamp, humidity : {21}]

ReadingLists == UNION {[1..n -> StoredReadings] : n \in 0..MaxStored}

RECURSIVE insertAll(_, _)
insertAll(table, readings) ==
  IF readings = <<>> THEN table
  ELSE insertAll(insertReading(table, Head(readings)), Tail(readings))

RECURSIVE addAll(_, _)
addAll(map, readings) ==
  IF readings = <<>> THEN map
  ELSE addAll(add(map, Head(readings)), Tail(readings))

workerVars == <<mainPc, shutdownPc, exitCode, timerVars, currentSensors,
                passVars, discVars, cleanVars, pool, dbSensors>>

\* a table and a store filled, in the same order, with a list of readings
InitRetention ==
  /\ mainPc = "start"
  /\ shutdownPc = "idle"
  /\ exitCode = "running"
  /\ collectionIntervalId = "null"
  /\ rediscoveryIntervalId = "null"
  /\ cleanupIntervalId = "null"
  /\ currentSensors = <<>>
  /\ passes = <<>>
  /\ passesStarted = 0
  /\ discoveries = <<>>
  /\ discStarted = 0
  /\ cleanups = <<>>
  /\ cleanupsStarted = 0
  /\ cleanupsFailed = 0
  /\ ServerNotLoaded
  /\ pool = "open"
  /\ dbSensors = <<>>
  /\ \E readings \in ReadingLists :
       /\ dbReadings = insertAll(EmptyBag, readings)
       /\ data = addAll(<<>>, readings)
  /\ call = [op |-> "none"]

\* the call made last, without its own history: which operation, with which
\* cutoff, and what it returned
LastCall ==
  IF call.op = "none" THEN call
  ELSE [op |-> call.op, cutoffDate |-> call.cutoffDate, returned |-> call.returned]

\* readingRepository.deleteOldReadings(cutoffDate) on the table
CallDeleteOldReadings(cutoffDate) ==
  /\ LET r == deleteOldReadings(dbReadings, cutoffDate)
     IN /\ dbReadings' = r.table
        /\ call' = [op |-> "deleteOldReadings", cutoffDate |-> cutoffDate,
                    before |-> dbReadings, returned |-> r.rowCount,
                    prev |-> LastCall]
  /\ UNCHANGED <<workerVars, serverVars, data>>

\* evictOldData() on the store, on day today
CallEvictOldData(today) ==
  /\ LET r == evictOldData(data, today)
     IN /\ data' = r.map
        /\ call' = [op |-> "evictOldData", cutoffDate |-> today - MAX_RETENTION_DAYS,
                    before |-> data, returned |-> r.evictedCount,
                    prev |-> LastCall]
  /\ UNCHANGED <<workerVars, serverVars, dbReadings>>

NextRetention ==
  \/ \E cutoffDate \in 0..(MaxStamp + 1) : CallDeleteOldReadings(cutoffDate)
  \/ \E today \in MAX_RETENTION_DAYS..(MAX_RETENTION_DAYS + MaxStamp + 1) :
       CallEvictOldData(today)

SpecRetention == InitRetention /\ [][NextRetention]_vars


\* ------------------------------------- retention timer, followed on its own
\* the worker after main has armed its timers (worker/index.ts:243-260),
\* with the sensors of the first snapshot as its roster and a table filled
\* by its passes
InitCleanup ==
  /\ mainPc = "armed"
  /\ shutdownPc = "idle"
  /\ exitCode = "running"
  /\ collectionIntervalId = "armed"
  /\ rediscoveryIntervalId = "armed"
  /\ cleanupIntervalId = "armed"
  /\ currentSensors = filterMapSensors(<<EntityTemp, EntityLight, EntityHum>>)
  /\ passes = <<>>
  /\ passesStarted = 1
  /\ discoveries = <<>>
  /\ discStarted = 1
  /\ cleanups = <<>>
  /\ cleanupsStarted = 0
  /\ cleanupsFailed = 0
  /\ ServerNotLoaded
  /\ pool = "open"
  /\ dbSensors = upsertSensor(upsertSensor(<<>>, mapStateToSensor(EntityTemp)),
                              mapStateToSensor(EntityHum))
  /\ \E readings \in ReadingLists : dbReadings = insertAll(EmptyBag, readings)
  /\ data = <<>>
  /\ call = [op |-> "none"]

\* the callback of the cleanup interval (worker/index.ts:258-260)
RetentionTick(today) ==
  /\ Running
  /\ UNCHANGED <<storeVars, serverVars>>
  /\ cleanupIntervalId = "armed"
  /\ cleanupsStarted < MaxRetentionTicks
  /\ cleanupOldData(today)
  /\ UNCHANGED <<mainPc, shutdownPc, exitCode, timerVars, currentSensors,
                 passVars, discVars, dbVars>>

NextCleanup ==
  \/ \E today \in Clock : RetentionTick(today)
  \/ \E c \in 1..MaxRetentionTicks : DeleteDone(c)
  \/ \E c \in 1..MaxRetentionTicks : DeleteFail(c)
  \/ \E c \in 1..MaxRetentionTicks : CleanupReturns(c)
  \/ shutdown
  \/ ShutdownExit

SpecCleanup == InitCleanup /\ [][NextCleanup]_vars

\* ------------------------------ collection timer, followed on its own
\* the worker after main has armed its timers (worker/index.ts:245-260),
\* its first pass over and the passes numbered from there
InitArmed ==
  /\ mainPc = "armed"
  /\ shutdownPc = "idle"
  /\ exitCode = "running"
  /\ collectionIntervalId = "armed"
  /\ rediscoveryIntervalId = "armed"
  /\ cleanupIntervalId = "armed"
  /\ currentSensors = filterMapSensors(<<EntityTemp, EntityLight, EntityHum>>)
  /\ passes = <<>>
  /\ passesStarted = 0
  /\ discoveries = <<>>
  /\ discStarted = 1
  /\ cleanups = <<>>
  /\ cleanupsStarted = 0
  /\ cleanupsFailed = 0
  /\ ServerNotLoaded
  /\ pool = "open"
  /\ dbSensors = upsertSensor(upsertSensor(<<>>, mapStateToSensor(EntityTemp)),
                              mapStateToSensor(EntityHum))
  /\ dbReadings = EmptyBag
  /\ data = <<>>
  /\ call = [op |-> "none"]

\* the ticks of the collection timer and the passes they start
NextArmed ==
  \/ CollectionTick
  \/ \E p \in 1..MaxPasses : PassStep(p)
  \/ shutdown
  \/ ShutdownExit

SpecArmed == InitArmed /\ [][NextArmed]_vars

\* ------------------------------------------------------------- read path
\* readingRepository.getAllLatestReadings: SELECT DISTINCT ON (sensor_id)
\* ... ORDER BY sensor_id, timestamp DESC keeps, for each sensor, one of its
\* rows of greatest timestamp; the set of the maps the query can return
getAllLatestReadings(table) ==
  LET rows == BagToSet(table)
      sensorIds == {r.sensor_id : r \in rows}
      latestOf(id) == {r \in rows : /\ r.sensor_id = id
                                    /\ \A o \in rows : o.sensor_id = id =>
                                         o.timestamp <= r.timestamp}
  IN {m \in [sensorIds -> rows] : \A id \in sensorIds : m[id] \in latestOf(id)}

\* sensorRepository.getAllSensors: every row of table sensors, ORDER BY
\* friendly_name under the collation of the database, which the program does
\* not fix; the set of the lists the query can return
RECURSIVE getAllSensors(_)
getAllSensors(table) ==
  IF DOMAIN table = {} THEN {<<>>}
  ELSE UNION {{<<table[id]>> \o rest :
                 rest \in getAllSensors([k \in DOMAIN table \ {id} |-> table[k]])} :
              id \in DOMAIN table}

\* ------------------------------------------------- add on a full store
\* the array of a sensor after n add calls, the k-th of them stamped k
AddedReadings(sensorId, n) ==
  [k \in 1..n |-> [sensorId |-> sensorId, timestamp |-> k, temperature |-> 21]]

\* the readings handed to add: of the sensor whose array is long, of the
\* sensor whose array is short, of a sensor the store has not seen; stamped
\* before or after every reading stored
AddInputs ==
  [sensorId : {<<"t","1">>, <<"h","1">>, <<"x","1">>},
   timestamp : {0, MaxPoints + 1},
   temperature : {21}]

\* a store whose limit is MaxPoints, after MaxPoints or one fewer add calls
\* for sensor t1 and two for sensor h1
InitAdd ==
  /\ mainPc = "start"
  /\ shutdownPc = "idle"
  /\ exitCode = "running"
  /\ collectionIntervalId = "null"
  /\ rediscoveryIntervalId = "null"
  /\ cleanupIntervalId = "null"
  /\ currentSensors = <<>>
  /\ passes = <<>>
  /\ passesStarted = 0
  /\ discoveries = <<>>
  /\ discStarted = 0
  /\ cleanups = <<>>
  /\ cleanupsStarted = 0
  /\ cleanupsFailed = 0
  /\ ServerNotLoaded
  /\ pool = "open"
  /\ dbSensors = <<>>
  /\ dbReadings = EmptyBag
  /\ \E n \in {MaxPoints - 1, MaxPoints} :
       data = (<<"t","1">> :> AddedReadings(<<"t","1">>, n))
                @@ (<<"h","1">> :> AddedReadings(<<"h","1">>, 2))
  /\ call = [op |-> "none", adds |-> 0]

\* dataStore.add(reading), on the store whose limit is MaxPoints
CallAdd(reading) ==
  /\ call.adds < MaxAdds
  /\ data' = addWithLimit(data, reading, MaxPoints)
  /\ call' = [op |-> "add", reading |-> reading, adds |-> call.adds + 1]
  /\ UNCHANGED <<workerVars, serverVars, dbReadings>>

NextAdd == \E reading \in AddInputs : CallAdd(reading)

SpecAdd == InitAdd /\ [][NextAdd]_vars

\* ------------------------------------------- latest-reading queries
\* the sensors a latest-reading query is made for: two with readings, one
\* the stores have never seen
QueriedSensors == {<<"t","1">>, <<"h","1">>, <<"x","1">>}

\* dataStore.getLatest(sensorId)
CallGetLatest(sensorId) ==
  /\ call.op = "none"
  /\ call' = [op |-> "getLatest", sensorId |-> sensorId,
              returned |-> getLatest(data, sensorId)]
  /\ UNCHANGED <<workerVars, serverVars, dbReadings, data>>

\* serverDataStore.getAllLatest()
CallGetAllLatest ==
  /\ call.op = "none"
  /\ call' = [op |-> "getAllLatest", returned |-> getAllLatest(data)]
  /\ UNCHANGED <<workerVars, serverVars, dbReadings, data>>

\* readingRepository.getAllLatestReadings()
CallGetAllLatestReadings ==
  /\ call.op = "none"
  /\ \E m \in getAllLatestReadings(dbReadings) :
       call' = [op |-> "getAllLatestReadings", returned |-> m]
  /\ UNCHANGED <<workerVars, serverVars, dbReadings, data>>

NextLatest ==
  \/ \E sensorId \in QueriedSensors : CallGetLatest(sensorId)
  \/ CallGetAllLatest
  \/ CallGetAllLatestReadings

\* the queries on a table and a store filled with the same readings, added
\* in every order
SpecLatest == InitRetention /\ [][NextLatest]_vars

\* ------------------------------------------------- aggregator, called alone
\* display names of sensors handed to groupSensorsByLocation
GroupingNames ==
  <<<<"B","a","d"," ","T","e","m","p","e","r","a","t","u","r","e">>,
    <<"B","a","d"," ","H","u","m","i","d","i","t","y">>,
    <<"B","a","d"," ","h","u","m","i","d","i","t","y">>,
    <<"B","a","d"," ","T","E","M","P","E","R","A","T","U","R","E">>,
    <<"B","a","d"," ","P","o","w","e","r">>,
    <<"f","l","u","r">>,
    <<"T","e","m","p","e","r","a","t","u","r","e"," ","L","a","b"," ","T","e","m","p","e","r","a","t","u","r","e">>,
    <<"T","e","m","p","e","r","a","t","u","r","e"," ","L","a","b"," ","H","u","m","i","d","i","t","y">>,
    <<"I","K","E","A"," ","o","f"," ","S","w","e","d","e","n"," ","R","O","D","R","E","T"," ","D","i","m","m","e","r"," ","B","a","t","t","e","r","y">>,
    <<"s","e","n","s","o","r",".","h","1">>,
    <<"T","e","m","p","e","r","a","t","u","r","e"," ","L","a","b"," ","B","a","t","t","e","r","y">>,
    <<"B","a","d"," ","B","a","t","t","e","r","y">>>>

\* the kind the classifier gave each of them
GroupingTypes ==
  <<"temperature", "humidity", "humidity", "temperature", "humidity", "temperature", "temperature", "humidity", "humidity", "humidity",
    "humidity", "humidity">>

\* status and lastSeen of a sensor row
Profiles ==
  {[status |-> "online", lastSeen |-> 1], [status |-> "offline", lastSeen |-> 2],
   [status |-> "error", lastSeen |-> 1]}

IdOf(i) ==
  IF i < 10 THEN <<"s", Digits[i + 1]>>
  ELSE <<"s", Digits[(i \div 10) + 1], Digits[(i % 10) + 1]>>

\* a row of table sensors as getAllSensors maps it to a Sensor
GroupingSensor(i, profile) ==
  [id |-> IdOf(i),
   entityId |-> sensorPrefix \o IdOf(i),
   friendlyName |-> GroupingNames[i],
   type |-> GroupingTypes[i],
   unit |-> IF GroupingTypes[i] = "temperature" THEN <<"°","C">> ELSE <<"%">>,
   lastSeen |-> profile.lastSeen,
   status |-> profile.status]

\* the latest row of sensor i: its value in the field of its kind
GroupingRow(i) ==
  [sensor_id |-> IdOf(i),
   timestamp |-> 1,
   temperature |-> IF GroupingTypes[i] = "temperature" THEN {10 + i} ELSE Null,
   humidity |-> IF GroupingTypes[i] = "humidity" THEN {10 + i} ELSE Null]

\* the list of sensors numbered idx[1], idx[2], ... with the profiles prof
SensorList(idx, prof) ==
  [k \in DOMAIN idx |-> GroupingSensor(idx[k], prof[k])]

\* the latest-reading map that has an entry for each sensor numbered in S
LatestMap(S) ==
  [id \in {IdOf(i) : i \in S} |-> GroupingRow(CHOOSE i \in S : IdOf(i) = id)]

\* an entry for every sensor, for the sensors of odd number only, for none
LatestChoices ==
  {1..Len(GroupingNames), {i \in 1..Len(GroupingNames) : i % 2 = 1}, {}}

\* the loader of a dashboard route has read every list of up to
\* MaxGroupInput sensors of distinct identifiers, in every order, with each
\* of the latest-reading maps, and is about to call groupSensorsByLocation
InitGrouping ==
  /\ mainPc = "start"
  /\ shutdownPc = "idle"
  /\ exitCode = "running"
  /\ collectionIntervalId = "null"
  /\ rediscoveryIntervalId = "null"
  /\ cleanupIntervalId = "null"
  /\ currentSensors = <<>>
  /\ passes = <<>>
  /\ passesStarted = 0
  /\ discoveries = <<>>
  /\ discStarted = 0
  /\ cleanups = <<>>
  /\ cleanupsStarted = 0
  /\ cleanupsFailed = 0
  /\ ServerNotLoaded
  /\ pool = "open"
  /\ dbSensors = <<>>
  /\ dbReadings = EmptyBag
  /\ data = <<>>
  /\ \E n \in 0..MaxGroupInput :
       \E idx \in [1..n -> 1..Len(GroupingNames)], prof \in [1..n -> Profiles],
          S \in LatestChoices :
         /\ \A a, b \in 1..n : a # b => idx[a] # idx[b]
         /\ call = [op |-> "none",
                    sensors |-> SensorList(idx, prof),
                    latestReadings |-> LatestMap(S)]

\* the sensors of a list whose location is no device name
RECURSIVE withoutDeviceNames(_)
withoutDeviceNames(sensors) ==
  IF sensors = <<>> THEN <<>>
  ELSE IF isDeviceName(extractLocation(Head(sensors).friendlyName))
  THEN withoutDeviceNames(Tail(sensors))
  ELSE <<Head(sensors)>> \o withoutDeviceNames(Tail(sensors))

\* CallGroupSensorsByLocation as it would be were the skipped sensors
\* spliced out of the list handed in
CallGroupSensorsByLocationSplicing(sensors, latestReadings) ==
  /\ call.op = "none"
  /\ call' = [op |-> "groupSensorsByLocation",
              sensors |-> withoutDeviceNames(sensors),
              latestReadings |-> latestReadings,
              returned |-> groupSensorsByLocation(sensors, latestReadings)]
  /\ UNCHANGED <<workerVars, serverVars, dbReadings, data>>

\* groupSensorsByLocation(sensors, latestReadings), as the loaders of the
\* dashboard routes call it; the function assigns to neither argument: the
\* list and the map are after the call what they were before it
CallGroupSensorsByLocation(sensors, latestReadings) ==
  /\ call.op = "none"
  /\ call' = [op |-> "groupSensorsByLocation",
              sensors |-> sensors,
              latestReadings |-> latestReadings,
              returned |-> groupSensorsByLocation(sensors, latestReadings)]
  /\ UNCHANGED <<workerVars, serverVars, dbReadings, data>>

NextGrouping ==
  /\ call.op = "none"
  /\ CallGroupSensorsByLocation(call.sensors, call.latestReadings)

SpecGrouping == InitGrouping /\ [][NextGrouping]_vars

\* ------------------------------------------------- classifier, called alone
\* the records a snapshot can hold: entity ids in and out of the sensor
\* namespace, each device class and unit the classifier tells apart
ClassifierEntityIds ==
  {<<"s","e","n","s","o","r",".","a","1">>,
   <<"l","i","g","h","t",".","a","1">>,
   <<"b","i","n","a","r","y","_","s","e","n","s","o","r",".","a","1">>}

ClassifierDeviceClasses ==
  {Undefined, temperatureStr, humidityStr, <<"p","o","w","e","r">>}

ClassifierUnits ==
  {Undefined, <<"°","C">>, <<"%">>, <<"W">>, <<"%","r","H">>}

ClassifierNames == {Undefined, <<"B","a","d"," ","T","e","m","p","e","r","a","t","u","r","e">>}

ClassifierRecords ==
  {[entity_id |-> e, state |-> <<"2","1">>, last_updated |-> RETENTION_DAYS,
    attributes |-> [friendly_name |-> n, unit_of_measurement |-> u,
                    device_class |-> c]] :
     e \in ClassifierEntityIds, c \in ClassifierDeviceClasses,
     u \in ClassifierUnits, n \in ClassifierNames}

\* discoverSensors() with getAllStates resolving to the given records
CallDiscoverSensors(states) ==
  /\ call.op = "none"
  /\ call' = [op |-> "discoverSensors",
              states |-> states,
              returned |-> discoverSensors([ok |-> TRUE, states |-> states])]
  /\ UNCHANGED <<workerVars, serverVars, dbReadings, data>>

\* every snapshot of up to MaxSnapshot records, each of an entity of its own
NextClassifier ==
  /\ call.op = "none"
  /\ \E n \in 0..MaxSnapshot :
       \E states \in [1..n -> ClassifierRecords] :
         /\ \A i, j \in 1..n : i # j => states[i].entity_id # states[j].entity_id
         /\ CallDiscoverSensors(states)

SpecClassifier == Init /\ [][NextClassifier]_vars

\* ====================================================== web server process
\* ------------------------------------------------ intervals of the process
\* setInterval: the intervals with a new armed one; its handle is its number
setInterval(ts, kind, owner) ==
  Append(ts, [kind |-> kind, owner |-> owner, armed |-> TRUE])

\* clearInterval on each handle of a set
clearInterval(ts, handles) ==
  [t \in DOMAIN ts |-> IF t \in handles THEN [ts[t] EXCEPT !.armed = FALSE] ELSE ts[t]]

\* a sequence without its k-th element
DropAt(seq, k) == SubSeq(seq, 1, k - 1) \o SubSeq(seq, k + 1, Len(seq))

\* ----------------------------------- BackgroundDataCollectionService
\* new BackgroundDataCollectionService(client): the fields of the object
NewService ==
  [intervalId |-> Null, evictionIntervalId |-> Null, isRunning |-> FALSE,
   sensors |-> <<>>]

\* what one getSensorState call of the service can do: reject, or resolve
\* with a state last updated on day 0
FetchOutcomes ==
  {[rejected |-> TRUE, state |-> <<>>, last_updated |-> 0]}
  \cup [rejected : {FALSE}, state : StateStrings, last_updated : {0}]

\* fetchSensorData: the reading, or null
fetchSensorData(sensor, outcome) ==
  IF outcome.rejected THEN Null
  ELSE LET state == [entity_id |-> sensor.entityId, state |-> outcome.state,
                     last_updated |-> outcome.last_updated]
           value == parseFloat(state.state)
       IN IF value.nan THEN Null
          ELSE {BuildReading(sensor, state, value.value)}

\* collectData after Promise.all: readings.forEach(reading => reading &&
\* serverDataStore.add(reading))
RECURSIVE addFetched(_, _)
addFetched(map, readings) ==
  IF readings = <<>> THEN map
  ELSE addFetched(IF Head(readings) = Null THEN map
                  ELSE add(map, CHOOSE reading \in Head(readings) : TRUE),
                  Tail(readings))

\* a task is a call in flight: a collectData call with the sensors it mapped
\* to fetches and what waits for it (start, with the number of the
\* initializeServer call that awaits start, 0 for none; or the interval
\* callback), or the discoverSensors call of a rediscovery callback

\* service.start(sensors), up to its await: returns at once on a running
\* service, else takes the sensors, sets isRunning and calls collectData;
\* at most MaxStarts calls find the service not running
ServiceStart(s, sensors) ==
  /\ s \in DOMAIN services
  /\ IF services[s].isRunning
     THEN UNCHANGED <<services, tasks>>
     ELSE /\ Cardinality({t \in DOMAIN timers : timers[t].kind = "collection"
                                                   /\ timers[t].owner = s})
               + Cardinality({k \in DOMAIN tasks : tasks[k].then = "start"
                                                     /\ tasks[k].service = s})
               < MaxStarts
          /\ services' = [services EXCEPT ![s].sensors = sensors,
                                          ![s].isRunning = TRUE]
          /\ tasks' = Append(tasks, [kind |-> "collectData", service |-> s,
                                     sensors |-> sensors, then |-> "start",
                                     init |-> 0])
  /\ UNCHANGED <<workerVars, dbReadings, storeVars, isInitialized,
                 backgroundService, timers, inits, ticks, shutdowns>>

\* BackgroundDataCollectionService.stop: the services and the intervals
\* after the call
stop(svcs, ts, s) ==
  [services |-> [svcs EXCEPT ![s].intervalId = Null,
                             ![s].evictionIntervalId = Null,
                             ![s].isRunning = FALSE],
   timers |-> clearInterval(ts, svcs[s].intervalId \cup svcs[s].evictionIntervalId)]

\* service.stop()
ServiceStop(s) ==
  /\ s \in DOMAIN services
  /\ services' = stop(services, timers, s).services
  /\ timers' = stop(services, timers, s).timers
  /\ UNCHANGED <<workerVars, dbReadings, storeVars, isInitialized,
                 backgroundService, inits, tasks, ticks, shutdowns>>

\* the promise of a collectData call resolves: the readings are added to
\* the store; a start call that awaited it sets both intervals
\* (dataRetention.ts:137-148), and an initializeServer call that awaited
\* start sets isInitialized and the rediscovery interval and returns
\* backgroundService (server.init.ts:47-63)
CollectDataResolves(k, outcomes) ==
  /\ k \in DOMAIN tasks
  /\ tasks[k].kind = "collectData"
  /\ LET task == tasks[k]
         s == task.service
         readings == [j \in 1..Len(task.sensors) |->
                        fetchSensorData(task.sensors[j], outcomes[j])]
         collection == Len(timers) + 1
         eviction == Len(timers) + 2
         set == setInterval(setInterval(timers, "collection", s), "eviction", s)
     IN /\ data' = addFetched(data, readings)
        /\ tasks' = DropAt(tasks, k)
        /\ IF task.then = "start"
           THEN /\ services' = [services EXCEPT ![s].intervalId = {collection},
                                                ![s].evictionIntervalId = {eviction}]
                /\ IF task.init = 0
                   THEN /\ timers' = set
                        /\ UNCHANGED <<isInitialized, inits>>
                   ELSE /\ timers' = setInterval(set, "rediscovery", 0)
                        /\ isInitialized' = TRUE
                        /\ inits' = [inits EXCEPT ![task.init] =
                                       [pc |-> "returned", returned |-> backgroundService]]
           ELSE UNCHANGED <<services, timers, isInitialized, inits>>
  /\ UNCHANGED <<workerVars, dbReadings, call, backgroundService, ticks, shutdowns>>

\* the collection interval of a service fires: collectData is called
ServiceCollectionTick(t) ==
  /\ ticks < MaxServerTicks
  /\ t \in DOMAIN timers
  /\ timers[t].armed
  /\ timers[t].kind = "collection"
  /\ tasks' = Append(tasks, [kind |-> "collectData", service |-> timers[t].owner,
                             sensors |-> services[timers[t].owner].sensors,
                             then |-> "tick", init |-> 0])
  /\ ticks' = ticks + 1
  /\ UNCHANGED <<workerVars, dbReadings, storeVars, isInitialized,
                 backgroundService, services, timers, inits, shutdowns>>

\* the eviction interval of a service fires on day today
ServiceEvictionTick(t, today) ==
  /\ ticks < MaxServerTicks
  /\ t \in DOMAIN timers
  /\ timers[t].armed
  /\ timers[t].kind = "eviction"
  /\ data' = evictOldData(data, today).map
  /\ ticks' = ticks + 1
  /\ UNCHANGED <<workerVars, dbReadings, call, isInitialized,
                 backgroundService, services, timers, inits, tasks, shutdowns>>

\* one service object, made and not started
InitService ==
  /\ mainPc = "start"
  /\ shutdownPc = "idle"
  /\ exitCode = "running"
  /\ collectionIntervalId = "null"
  /\ rediscoveryIntervalId = "null"
  /\ cleanupIntervalId = "null"
  /\ currentSensors = <<>>
  /\ passes = <<>>
  /\ passesStarted = 0
  /\ discoveries = <<>>
  /\ discStarted = 0
  /\ cleanups = <<>>
  /\ cleanupsStarted = 0
  /\ cleanupsFailed = 0
  /\ pool = "open"
  /\ dbSensors = <<>>
  /\ dbReadings = EmptyBag
  /\ data = <<>>
  /\ call = [op |-> "none"]
  /\ isInitialized = FALSE
  /\ backgroundService = Null
  /\ services = <<NewService>>
  /\ timers = <<>>
  /\ inits = <<>>
  /\ tasks = <<>>
  /\ ticks = 0
  /\ shutdowns = 0

\* start is handed the sensors discovered in a snapshot
NextService ==
  \/ \E snapshot \in Snapshots : ServiceStart(1, filterMapSensors(snapshot))
  \/ ServiceStop(1)
  \/ \E k \in DOMAIN tasks :
       \E outcomes \in [1..Len(tasks[k].sensors) -> FetchOutcomes] :
         CollectDataResolves(k, outcomes)
  \/ \E t \in DOMAIN timers : ServiceCollectionTick(t)
  \/ \E t \in DOMAIN timers, today \in Clock : ServiceEvictionTick(t, today)

SpecService == InitService /\ [][NextService]_vars

\* ------------------------------------------------------- server.init.ts
\* the outcomes of the getAllStates call of discoverSensors
Responses ==
  [ok : {TRUE}, states : Snapshots, error : {""}]
  \cup [ok : {FALSE}, states : {<<>>}, error : FetchErrors]

\* initializeServer is called: an initialized server returns
\* backgroundService, a server without credentials returns null, else
\* discoverSensors is called and awaited
initializeServer(configured) ==
  /\ Len(inits) < MaxInits
  /\ inits' = Append(inits,
                IF isInitialized
                THEN [pc |-> "returned", returned |-> backgroundService]
                ELSE IF ~configured
                THEN [pc |-> "returned", returned |-> Null]
                ELSE [pc |-> "discover", returned |-> Null])
  /\ UNCHANGED <<workerVars, dbReadings, storeVars, isInitialized,
                 backgroundService, services, timers, tasks, ticks, shutdowns>>

\* the discoverSensors call of initializeServer settles: a rejection is
\* caught and null returned; else a new service is assigned to
\* backgroundService and started (a new service is not running)
InitDiscoverySettles(i, response) ==
  /\ i \in DOMAIN inits
  /\ inits[i].pc = "discover"
  /\ LET r == discoverSensors(response)
         s == Len(services) + 1
     IN IF r.threw
        THEN /\ inits' = [inits EXCEPT ![i].pc = "returned"]
             /\ UNCHANGED <<backgroundService, services, tasks>>
        ELSE /\ backgroundService' = {s}
             /\ services' = Append(services, [NewService EXCEPT !.sensors = r.sensors,
                                                               !.isRunning = TRUE])
             /\ tasks' = Append(tasks, [kind |-> "collectData", service |-> s,
                                        sensors |-> r.sensors, then |-> "start",
                                        init |-> i])
             /\ inits' = [inits EXCEPT ![i].pc = "start"]
  /\ UNCHANGED <<workerVars, dbReadings, storeVars, isInitialized, timers,
                 ticks, shutdowns>>

\* the rediscovery interval fires: discoverSensors is called and awaited
ServerRediscoveryTick(t) ==
  /\ ticks < MaxServerTicks
  /\ t \in DOMAIN timers
  /\ timers[t].armed
  /\ timers[t].kind = "rediscovery"
  /\ tasks' = Append(tasks, [kind |-> "discoverSensors", service |-> 0,
                             sensors |-> <<>>, then |-> "updateSensors",
                             init |-> 0])
  /\ ticks' = ticks + 1
  /\ UNCHANGED <<workerVars, dbReadings, storeVars, isInitialized,
                 backgroundService, services, timers, inits, shutdowns>>

\* the discoverSensors call of the rediscovery callback settles: the
\* sensors go to backgroundService.updateSensors, a rejection is logged
RediscoverySettles(k, response) ==
  /\ k \in DOMAIN tasks
  /\ tasks[k].kind = "discoverSensors"
  /\ LET r == discoverSensors(response)
     IN IF ~r.threw /\ backgroundService # Null
        THEN services' = [s \in DOMAIN services |->
                            IF s \in backgroundService
                            THEN [services[s] EXCEPT !.sensors = r.sensors]
                            ELSE services[s]]
        ELSE UNCHANGED services
  /\ tasks' = DropAt(tasks, k)
  /\ UNCHANGED <<workerVars, dbReadings, storeVars, isInitialized,
                 backgroundService, timers, inits, ticks, shutdowns>>

\* shutdownServer (the handler of SIGTERM and SIGINT)
shutdownServer ==
  /\ shutdowns < MaxShutdowns
  /\ IF backgroundService # Null
     THEN LET s == CHOOSE x \in backgroundService : TRUE
          IN /\ services' = stop(services, timers, s).services
             /\ timers' = stop(services, timers, s).timers
     ELSE UNCHANGED <<services, timers>>
  /\ isInitialized' = FALSE
  /\ shutdowns' = shutdowns + 1
  /\ UNCHANGED <<workerVars, dbReadings, storeVars, backgroundService,
                 inits, tasks, ticks>>

\* server.init.ts is loaded: the module calls initializeServer itself
InitServer ==
  /\ mainPc = "start"
  /\ shutdownPc = "idle"
  /\ exitCode = "running"
  /\ collectionIntervalId = "null"
  /\ rediscoveryIntervalId = "null"
  /\ cleanupIntervalId = "null"
  /\ currentSensors = <<>>
  /\ passes = <<>>
  /\ passesStarted = 0
  /\ discoveries = <<>>
  /\ discStarted = 0
  /\ cleanups = <<>>
  /\ cleanupsStarted = 0
  /\ cleanupsFailed = 0
  /\ pool = "open"
  /\ dbSensors = <<>>
  /\ dbReadings = EmptyBag
  /\ data = <<>>
  /\ call = [op |-> "none"]
  /\ isInitialized = FALSE
  /\ backgroundService = Null
  /\ services = <<>>
  /\ timers = <<>>
  /\ inits = <<[pc |-> "discover", returned |-> Null]>>
  /\ tasks = <<>>
  /\ ticks = 0
  /\ shutdowns = 0

NextServer ==
  \/ \E configured \in BOOLEAN : initializeServer(configured)
  \/ \E i \in DOMAIN inits, response \in Responses : InitDiscoverySettles(i, response)
  \/ \E k \in DOMAIN tasks :
       \E outcomes \in [1..Len(tasks[k].sensors) -> FetchOutcomes] :
         CollectDataResolves(k, outcomes)
  \/ \E k \in DOMAIN tasks, response \in Responses : RediscoverySettles(k, response)
  \/ \E t \in DOMAIN timers : ServiceCollectionTick(t)
  \/ \E t \in DOMAIN timers, today \in Clock : ServiceEvictionTick(t, today)
  \/ \E t \in DOMAIN timers : ServerRediscoveryTick(t)
  \/ shutdownServer

SpecServer == InitServer /\ [][NextServer]_vars

\* ================================================================ claims
Count(pass, statuses) ==
  Cardinality({i \in 1..Len(pass.roster) : pass.fetch[i] \in statuses})

\* the stable identifiers of a roster
Ids(roster) == {roster[i].id : i \in 1..Len(roster)}

\* C1: a pass of N sensors of which k fetches fail (source error or NaN)
\* and no write fails persists exactly N-k readings, one for each
\* non-failing sensor: when collectData reads its results every fetch has
\* settled and the ok ones number N-k; a step that settles one fetch leaves
\* the sibling fetches as they were; a fetch becomes ok exactly in a step
\* that adds one row of its sensor to sensor_readings
C1_Counted ==
  \A p \in DOMAIN passes :
    passes[p].phase = "counting" =>
      /\ AllResolved(passes[p])
      /\ Count(passes[p], {"writeFailed"}) = 0 =>
           /\ Count(passes[p], {"ok"}) =
                Len(passes[p].roster) - Count(passes[p], {"fetchFailed", "invalid"})
           /\ \A i \in 1..Len(passes[p].roster) :
                passes[p].fetch[i] \in {"ok", "fetchFailed", "invalid"}

C1_Step ==
  \A p \in DOMAIN passes : p \in DOMAIN passes' =>
    \A i \in 1..Len(passes[p].roster) :
      passes'[p].fetch[i] # passes[p].fetch[i] =>
        /\ \A j \in 1..Len(passes[p].roster) :
             j # i => passes'[p].fetch[j] = passes[p].fetch[j]
        /\ passes'[p].fetch[i] = "ok" =>
             \E r \in BagToSet(dbReadings') :
               /\ r.sensor_id = passes[p].roster[i].id
               /\ dbReadings' = dbReadings (+) SetToBag({r})
        /\ passes'[p].fetch[i] # "ok" => dbReadings' = dbReadings

\* C1: failure isolation of a collection pass: N-k readings persisted when
\* k fetches fail and no write fails, one per non-failing sensor
C1_FailureIsolation == [](C1_Counted) /\ [][C1_Step]_vars

C1_Witness ==
  \E p \in DOMAIN passes :
    /\ passes[p].phase = "counting"
    /\ Count(passes[p], {"writeFailed"}) = 0
    /\ Count(passes[p], {"fetchFailed", "invalid"}) >= 1
    /\ Count(passes[p], {"ok"}) >= 1

\* C2: every read of the roster a collection pass makes between its start
\* and its completion sees the roster the pass started with
C2_RosterReadsSeeStartRoster ==
  \A p \in DOMAIN passes : passes[p].rosterRead = {passes[p].roster}

\* C3: the initial discovery completes before the initial collection pass
\* begins, that pass completes before any timer is armed, and after a failed
\* initial discovery no pass runs and no timer is armed
NoTimer ==
  /\ collectionIntervalId = "null"
  /\ rediscoveryIntervalId = "null"
  /\ cleanupIntervalId = "null"

C3_State ==
  /\ mainPc \in {"start", "discover", "failed"} => passesStarted = 0 /\ NoTimer
  /\ mainPc \in {"collect", "collecting"} =>
       /\ discoveries = <<>>
       /\ discStarted = 1
       /\ NoTimer
  /\ passesStarted > 0 => discStarted >= 1 /\ mainPc \notin {"start", "discover", "failed"}
  /\ ~NoTimer => mainPc = "armed"

C3_Step ==
  /\ NoTimer /\ ~NoTimer' => passes = <<>> /\ passesStarted = 1 /\ discoveries = <<>>
  /\ passesStarted = 0 /\ passesStarted' > 0 => discoveries = <<>> /\ discStarted = 1
  /\ mainPc = "failed" => mainPc' = "failed"

\* C3: startup order: initial discovery, then initial pass, then timers
C3_StartupOrder == [](C3_State) /\ [][C3_Step]_vars

C3_Witness ==
  /\ ~NoTimer
  /\ dbReadings # EmptyBag
  /\ passes = <<>>

\* C4: once shutdown has begun the three timers are cancelled, and no
\* collection pass, discovery run or retention run starts afterwards
C4_State ==
  shutdownPc # "idle" =>
    /\ collectionIntervalId = "cleared"
    /\ rediscoveryIntervalId = "cleared"
    /\ cleanupIntervalId = "cleared"

C4_Step ==
  shutdownPc # "idle" =>
    /\ passesStarted' = passesStarted
    /\ discStarted' = discStarted
    /\ cleanupsStarted' = cleanupsStarted

WorkInFlight ==
  \/ \E p \in DOMAIN passes :
       \E i \in 1..Len(passes[p].roster) : passes[p].fetch[i] \in {"pending", "inserting"}
  \/ \E d \in DOMAIN discoveries : discoveries[d].phase \in {"fetching", "discovered", "upserting"}
  \/ \E c \in DOMAIN cleanups : cleanups[c].phase = "deleting"

\* C5: the worker exits with code 0 only when no pass, discovery run or
\* retention run is still in flight
C5_InFlightWorkFinishes == exitCode = "0" => ~WorkInFlight

\* C6: the timers are independent of the collection passes: whatever the
\* passes in flight are doing, an armed discovery or retention timer can
\* fire, and a discovery or retention run in flight can take its next step
C6_TimersIndependent ==
  /\ Running /\ rediscoveryIntervalId = "armed" /\ discStarted < MaxDiscoveries
       => ENABLED RediscoveryTick
  /\ Running /\ cleanupIntervalId = "armed" /\ cleanupsStarted < MaxCleanups
       => ENABLED (\E today \in Clock : CleanupTick(today))
  /\ \A d \in DOMAIN discoveries : Running =>
       ENABLED (\/ \E snapshot \in Snapshots : GetAllStatesOk(d, snapshot)
                \/ Discovered(d) \/ UpsertOk(d) \/ UnhandledRejection(d))
  /\ \A c \in DOMAIN cleanups : Running =>
       ENABLED (DeleteDone(c) \/ CleanupReturns(c))

C6_Witness ==
  \E p \in DOMAIN passes :
    /\ Count(passes[p], {"pending"}) = Len(passes[p].roster)
    /\ currentSensors # passes[p].roster
    /\ \E c \in DOMAIN cleanups : cleanups[c].phase = "deleted"

\* C7: a discovery run never deletes or changes a persisted reading, and a
\* pass started after the roster was replaced polls only sensors of the new
\* roster
C7_Step ==
  /\ (discoveries' # discoveries \/ currentSensors' # currentSensors
        \/ dbSensors' # dbSensors) => dbReadings' = dbReadings
  /\ \A p \in DOMAIN passes' \ DOMAIN passes :
       Ids(passes'[p].roster) \subseteq Ids(currentSensors)

\* C7: every step keeps the persisted readings across a discovery run and
\* starts passes only on sensors of the current roster
C7_DiscoveryKeepsReadings == [][C7_Step]_vars

C7_Witness ==
  /\ \E r \in BagToSet(dbReadings) : r.sensor_id \notin Ids(currentSensors)
  /\ \E p \in DOMAIN passes : p > 1 /\ passes[p].roster = currentSensors

\* C8: when getAllStates fails, discoverSensors throws that error, returns
\* no sensors and has made one getAllStates call
C8_SnapshotFailurePropagates ==
  \A d \in DOMAIN discoveries :
    (discoveries[d].phase = "discovered" /\ ~discoveries[d].response[1].ok) =>
      /\ discoveries[d].result[1].threw
      /\ discoveries[d].result[1].error = discoveries[d].response[1].error
      /\ discoveries[d].result[1].sensors = <<>>
      /\ discoveries[d].calls = 1

C8_Witness ==
  \E d \in DOMAIN discoveries :
    /\ discoveries[d].phase = "discovered"
    /\ ~discoveries[d].response[1].ok

\* C9: after a rediscovery tick has failed the worker keeps running with
\* its timers armed and its roster as it was
C9_Step ==
  (/\ \E d \in DOMAIN discoveries : discoveries[d].phase = "rejected"
   /\ shutdownPc = "idle" /\ shutdownPc' = "idle") =>
    /\ exitCode' = "running"
    /\ collectionIntervalId' = "armed"
    /\ rediscoveryIntervalId' = "armed"
    /\ cleanupIntervalId' = "armed"

\* C9: every step taken after a rediscovery tick has failed leaves the
\* worker running with its three timers armed
C9_FailedRediscoveryKeepsRunning == [][C9_Step]_vars

\* C10: retention deletion with a cutoff removes exactly the readings
\* stamped strictly before the cutoff, keeps every reading stamped at or
\* after it, of every sensor, and returns the number of readings removed
Occurrences(readings, r) ==
  Cardinality({i \in 1..Len(readings) : readings[i] = r})

\* C10: after a retention call the store holds exactly the readings stamped
\* at or after the cutoff, and the call returned the number removed
C10_DeletesExactlyOlder ==
  /\ call.op = "deleteOldReadings" =>
       /\ BagToSet(dbReadings) \subseteq BagToSet(call.before)
       /\ \A r \in BagToSet(call.before) :
            CopiesIn(r, dbReadings) =
              IF r.timestamp < call.cutoffDate THEN 0 ELSE CopiesIn(r, call.before)
       /\ call.returned = BagCardinality(call.before) - BagCardinality(dbReadings)
  /\ call.op = "evictOldData" =>
       /\ DOMAIN data = DOMAIN call.before
       /\ \A k \in DOMAIN data :
            /\ \A i \in 1..Len(data[k]) :
                 Occurrences(data[k], data[k][i]) = Occurrences(call.before[k], data[k][i])
            /\ \A i \in 1..Len(call.before[k]) :
                 Occurrences(data[k], call.before[k][i]) =
                   IF call.before[k][i].timestamp < call.cutoffDate THEN 0
                   ELSE Occurrences(call.before[k], call.before[k][i])
       /\ call.returned = SumLen(call.before, DOMAIN data) - SumLen(data, DOMAIN data)

C10_Witness ==
  /\ call.op = "deleteOldReadings"
  /\ call.returned >= 1
  /\ \E r \in BagToSet(dbReadings) : r.timestamp = call.cutoffDate
  /\ \E r \in BagToSet(dbReadings) : r.sensor_id # <<"t","1">>

\* C11: retention deletion is idempotent: a call that follows a call of the
\* same operation with the same cutoff, nothing inserted in between, removes
\* nothing, returns 0 and leaves the stored readings as they were
C11_DeleteIdempotent ==
  (/\ call.op # "none"
   /\ call.prev.op = call.op
   /\ call.prev.cutoffDate = call.cutoffDate) =>
    /\ call.returned = 0
    /\ call.op = "deleteOldReadings" => dbReadings = call.before
    /\ call.op = "evictOldData" => data = call.before

C11_Witness ==
  /\ call.op = "deleteOldReadings"
  /\ call.prev.op = "deleteOldReadings"
  /\ call.prev.cutoffDate = call.cutoffDate
  /\ call.prev.returned >= 1
  /\ dbReadings # EmptyBag

\* C12: every reading built by the fetcher and every persisted reading has
\* at least one of temperature and humidity present
C12_ReadingsHaveValue ==
  /\ \A p \in DOMAIN passes :
       \A i \in 1..Len(passes[p].roster) :
         passes[p].rd[i] # <<>> =>
           \/ "temperature" \in DOMAIN passes[p].rd[i][1]
           \/ "humidity" \in DOMAIN passes[p].rd[i][1]
  /\ \A r \in BagToSet(dbReadings) : r.temperature # Null \/ r.humidity # Null

C12_Witness ==
  /\ \E r \in BagToSet(dbReadings) : r.temperature # Null /\ r.humidity = Null
  /\ \E r \in BagToSet(dbReadings) : r.temperature = Null /\ r.humidity # Null
  /\ \E p \in DOMAIN passes :
       \E i \in 1..Len(passes[p].roster) : passes[p].rd[i] # <<>>

\* the value a group shows for a data kind
Shown(group, kind) ==
  IF kind = "temperature" THEN group.temperature
  ELSE IF kind = "humidity" THEN group.humidity
  ELSE group.battery

\* the sensors that have a row in sensor_readings
SensorsWithReadings(table) == {r.sensor_id : r \in BagToSet(table)}

\* what the loader of the dashboard can compute from the tables: the lists
\* of sensors, the latest-reading maps, and the groups of each pair
ShownFor(sensors, latest, k) ==
  LET location == extractLocation(sensors[k].friendlyName)
      groups == groupSensorsByLocation(sensors, latest)
  IN \E g \in 1..Len(groups) :
       /\ groups[g].location = location
       /\ \E m \in 1..Len(groups[g].sensorIds) :
            groups[g].sensorIds[m] = sensors[k].id
       /\ Shown(groups[g], sensors[k].type) # Null
       /\ Shown(groups[g], sensors[k].type) =
            (IF sensors[k].type = "temperature" THEN latest[sensors[k].id].temperature
             ELSE latest[sensors[k].id].humidity)

\* the display name of sensor k is kept by the device-name filter, names
\* the sensor's own kind, and no other sensor of the list shares both its
\* location and its kind by name
NamedForItsKind(sensors, k) ==
  LET name == sensors[k].friendlyName
  IN /\ ~isDeviceName(extractLocation(name))
     /\ getSensorDataType(name) = sensors[k].type
     /\ \A o \in 1..Len(sensors) :
          o # k =>
            \/ extractLocation(sensors[o].friendlyName) # extractLocation(name)
            \/ getSensorDataType(sensors[o].friendlyName) # getSensorDataType(name)

C13_StateOriginal ==
  \A sensors \in getAllSensors(dbSensors), latest \in getAllLatestReadings(dbReadings) :
    \A k \in 1..Len(sensors) :
      sensors[k].id \in DOMAIN latest => ShownFor(sensors, latest, k)

\* a sensor that has a row in sensor_readings keeps having one
C13_StepOriginal ==
  SensorsWithReadings(dbReadings) \subseteq SensorsWithReadings(dbReadings')

C13_State ==
  \A sensors \in getAllSensors(dbSensors), latest \in getAllLatestReadings(dbReadings) :
    /\ DOMAIN latest = SensorsWithReadings(dbReadings)
    /\ \A k \in 1..Len(sensors) :
         (sensors[k].id \in DOMAIN latest /\ NamedForItsKind(sensors, k)) =>
           ShownFor(sensors, latest, k)

\* a sensor loses its last row only in the step in which a retention run's
\* delete completes
C13_Step ==
  ~(SensorsWithReadings(dbReadings) \subseteq SensorsWithReadings(dbReadings')) =>
    \E c \in DOMAIN cleanups :
      /\ cleanups[c].phase = "deleting"
      /\ cleanups'[c].phase = "deleted"

MembersOf(sensors, group) ==
  {k \in 1..Len(sensors) :
     \E m \in 1..Len(group.sensorIds) : group.sensorIds[m] = sensors[k].id}

\* C14: the status of every group returned is error if a member is error,
\* otherwise offline if a member is offline, otherwise online, whatever the
\* order of the members in the list
C14_StatusPrecedence ==
  call.op = "groupSensorsByLocation" =>
    \A g \in 1..Len(call.returned) :
      LET statuses == {call.sensors[k].status :
                         k \in MembersOf(call.sensors, call.returned[g])}
      IN call.returned[g].status =
           (IF "error" \in statuses THEN "error"
            ELSE IF "offline" \in statuses THEN "offline"
            ELSE "online")

C14_Witness ==
  /\ call.op = "groupSensorsByLocation"
  /\ Len(call.sensors) = 3
  /\ call.sensors[1].status = "error"
  /\ call.sensors[2].status = "offline"
  /\ call.sensors[3].status = "online"
  /\ Len(call.returned) = 1
  /\ Len(call.returned[1].sensorIds) = 3
  /\ call.returned[1].status = "error"

\* String.prototype.endsWith
EndsWith(s, p) ==
  /\ Len(s) >= Len(p)
  /\ SubSeq(s, Len(s) - Len(p) + 1, Len(s)) = p

\* s without its last n characters
DropLast(s, n) == SubSeq(s, 1, Len(s) - n)

\* the locations that, followed by " Temperature" and " Humidity", are the
\* display names of sensors a and b
PairLocations(a, b) ==
  {DropLast(a.friendlyName, 12)} \cap
  {L \in {DropLast(b.friendlyName, 9)} :
     /\ EndsWith(a.friendlyName, <<" ","T","e","m","p","e","r","a","t","u","r","e">>)
     /\ EndsWith(b.friendlyName, <<" ","H","u","m","i","d","i","t","y">>)}

\* C15: two sensors named by the same location followed by " Temperature"
\* and " Humidity", no other sensor of the list being of that location, are
\* members of one group named by the location, whose temperature and
\* humidity are those of the two sensors' latest readings
C15_PairMergedByLocation ==
  call.op = "groupSensorsByLocation" =>
    \A a, b \in 1..Len(call.sensors) :
      \A L \in PairLocations(call.sensors[a], call.sensors[b]) :
        (/\ \A o \in 1..Len(call.sensors) :
              o \notin {a, b} => extractLocation(call.sensors[o].friendlyName) # L
         /\ call.sensors[a].id \in DOMAIN call.latestReadings
         /\ call.sensors[b].id \in DOMAIN call.latestReadings) =>
          \E g \in 1..Len(call.returned) :
            /\ call.returned[g].location = L
            /\ {a, b} \subseteq MembersOf(call.sensors, call.returned[g])
            /\ call.returned[g].temperature =
                 call.latestReadings[call.sensors[a].id].temperature
            /\ call.returned[g].humidity =
                 call.latestReadings[call.sensors[b].id].humidity

\* a location that matches a device-name pattern: it starts with the vendor
\* name, or contains "dimmer" or "sensor", or reads "of <country>", in any
\* capitalisation
DevicePattern(location) ==
  \/ StartsWith(toLowerCase(location), <<"i","k","e","a">>)
  \/ Includes(toLowerCase(location), <<"d","i","m","m","e","r">>)
  \/ Includes(toLowerCase(location), <<"s","e","n","s","o","r">>)
  \/ MatchesOfCountry(location)

\* C16: a sensor whose extracted location matches a device-name pattern has
\* no group of that location and is a member of no group, whatever the other
\* sensors of the list
C16_DeviceNamesNotGrouped ==
  call.op = "groupSensorsByLocation" =>
    \A k \in 1..Len(call.sensors) :
      DevicePattern(extractLocation(call.sensors[k].friendlyName)) =>
        \A g \in 1..Len(call.returned) :
          /\ call.returned[g].location # extractLocation(call.sensors[k].friendlyName)
          /\ k \notin MembersOf(call.sensors, call.returned[g])

C16_Witness ==
  /\ call.op = "groupSensorsByLocation"
  /\ Len(call.sensors) = 3
  /\ StartsWith(call.sensors[1].friendlyName, <<"I","K","E","A"," ","o","f"," ","S","w","e","d","e","n">>)
  /\ call.sensors[2].friendlyName = sensorPrefix \o <<"h", "1">>
  /\ Len(call.returned) = 1
  /\ Len(call.returned[1].sensorIds) = 1

\* is the record one the classifier must reject: outside the sensor
\* namespace, or with neither a temperature or humidity device class nor a
\* unit that contains "°" or equals "%"
NotASensor(state) ==
  \/ ~StartsWith(state.entity_id, sensorPrefix)
  \/ /\ state.attributes.device_class \notin {temperatureStr, humidityStr}
     /\ ~Includes(state.attributes.unit_of_measurement, <<"°">>)
     /\ state.attributes.unit_of_measurement # <<"%">>

\* C17: no record outside the sensor namespace, and no record of it with
\* neither signal, is in the list discoverSensors returns; a record of the
\* namespace with neither signal has no type
C17_NonSensorsRejected ==
  call.op = "discoverSensors" =>
    /\ \A k \in 1..Len(call.states) :
         NotASensor(call.states[k]) =>
           /\ \A m \in 1..Len(call.returned.sensors) :
                call.returned.sensors[m].entityId # call.states[k].entity_id
           /\ StartsWith(call.states[k].entity_id, sensorPrefix) =>
                getSensorType(call.states[k]) = "null"
    /\ Len(call.returned.sensors) =
         Cardinality({k \in 1..Len(call.states) : ~NotASensor(call.states[k])})

C17_Witness ==
  /\ call.op = "discoverSensors"
  /\ Len(call.states) = 2
  /\ ~StartsWith(call.states[1].entity_id, sensorPrefix)
  /\ call.states[1].attributes.device_class = temperatureStr
  /\ StartsWith(call.states[2].entity_id, sensorPrefix)
  /\ call.states[2].attributes.device_class \notin {temperatureStr, humidityStr}
  /\ call.states[2].attributes.unit_of_measurement = <<"%","r","H">>
  /\ call.returned.sensors = <<>>

\* C18: a record of the sensor namespace whose device class is humidity is
\* classified humidity and one whose device class is temperature is
\* classified temperature, whatever its unit
C18_DeviceClassFirst ==
  call.op = "discoverSensors" =>
    \A k \in 1..Len(call.states) :
      /\ call.states[k].attributes.device_class = temperatureStr =>
           getSensorType(call.states[k]) = "temperature"
      /\ call.states[k].attributes.device_class = humidityStr =>
           getSensorType(call.states[k]) = "humidity"

\* the descriptor words, in lower case
DescriptorWords ==
  {<<"t","e","m","p","e","r","a","t","u","r","e">>,
   <<"h","u","m","i","d","i","t","y">>,
   <<"b","a","t","t","e","r","y">>,
   <<"p","o","w","e","r">>}

\* the descriptor words that, in some capitalisation and after a space, end
\* the name
TrailingDescriptors(name) ==
  {d \in DescriptorWords : EndsWith(toLowerCase(name), <<" ">> \o d)}

\* C19: the location of a display name that ends with a space and a
\* descriptor word in any capitalisation is the name without them, and the
\* location of a name that ends with no descriptor word is the name itself
C19_StripsAnyCapitalisation ==
  call.op = "groupSensorsByLocation" =>
    \A k \in 1..Len(call.sensors) :
      LET name == call.sensors[k].friendlyName
      IN /\ \A d \in TrailingDescriptors(name) :
              extractLocation(name) = trim(DropLast(name, Len(d) + 1))
         /\ TrailingDescriptors(name) = {} => extractLocation(name) = name

\* C19, for the spellings the suffixes array holds
C19_StripsListedSpellings ==
  call.op = "groupSensorsByLocation" =>
    \A k \in 1..Len(call.sensors) :
      LET name == call.sensors[k].friendlyName
      IN /\ \A j \in 1..Len(suffixes) :
              EndsWith(name, <<" ">> \o suffixes[j]) =>
                extractLocation(name) = trim(DropLast(name, Len(suffixes[j]) + 1))
         /\ TrailingDescriptors(name) = {} => extractLocation(name) = name

\* C20: in the list groupSensorsByLocation returns, every group sorts
\* before every later group in the order of localeCompare, and no two groups
\* have the same location
C20_SortedDistinctLocations ==
  call.op = "groupSensorsByLocation" =>
    \A i, j \in 1..Len(call.returned) :
      i < j =>
        /\ localeCompare(call.returned[i].location, call.returned[j].location) < 0
        /\ call.returned[i].location # call.returned[j].location

\* three groups returned in an order that is neither the order of the input
\* nor the order of the code units
C20_Witness ==
  /\ call.op = "groupSensorsByLocation"
  /\ Len(call.sensors) = 3
  /\ call.sensors[1].friendlyName = GroupingNames[7]
  /\ call.sensors[2].friendlyName = GroupingNames[6]
  /\ call.sensors[3].friendlyName = GroupingNames[1]
  /\ Len(call.returned) = 3
  /\ call.returned[1].location = <<"B","a","d">>
  /\ call.returned[2].location = <<"f","l","u","r">>
  /\ call.returned[3].location = <<"T","e","m","p","e","r","a","t","u","r","e"," ","L","a","b">>

\* the data kinds a group shows
DataKinds == {"temperature", "humidity", "battery"}

\* the field of a reading a group shows for a data kind
ReadingValue(reading, kind) ==
  IF kind = "temperature" THEN reading.temperature ELSE reading.humidity

\* the members of a group that are of a data kind by their names and have an
\* entry in the latest-reading map
KindSources(sensors, latestReadings, group, kind) ==
  {k \in MembersOf(sensors, group) :
     /\ getSensorDataType(sensors[k].friendlyName) = kind
     /\ sensors[k].id \in DOMAIN latestReadings}

\* the identifiers of the sensors of a location, in the order of the list
RECURSIVE IdsOfLocation(_, _)
IdsOfLocation(sensors, location) ==
  IF sensors = <<>> THEN <<>>
  ELSE IF extractLocation(Head(sensors).friendlyName) = location
  THEN <<Head(sensors).id>> \o IdsOfLocation(Tail(sensors), location)
  ELSE IdsOfLocation(Tail(sensors), location)

C21_WitnessNoReadings ==
  /\ call.op = "groupSensorsByLocation"
  /\ DOMAIN call.latestReadings = {}
  /\ Len(call.returned) = 1
  /\ Len(call.returned[1].sensorIds) = 2
  /\ \A kind \in DataKinds : Shown(call.returned[1], kind) = Null

\* the name ends with a space and "battery" or "power", in any capitalisation
MarkedBattery(name) ==
  \E d \in {<<"b","a","t","t","e","r","y">>, <<"p","o","w","e","r">>} :
    EndsWith(toLowerCase(name), <<" ">> \o d)

\* the list without its element k
RemoveAt(seq, k) == SubSeq(seq, 1, k - 1) \o SubSeq(seq, k + 1, Len(seq))

\* the value the group of a location shows for a data kind in a list of
\* groups; undefined when the list has no group of the location
ShownAt(groups, location, kind) ==
  IF \E g \in 1..Len(groups) : groups[g].location = location
  THEN Shown(groups[CHOOSE g \in 1..Len(groups) : groups[g].location = location], kind)
  ELSE Null

\* the sensors of the list after k that are marked battery, are of the
\* location of sensor k and have an entry in the latest-reading map
LaterBattery(sensors, latestReadings, k) ==
  {o \in (k + 1)..Len(sensors) :
     /\ MarkedBattery(sensors[o].friendlyName)
     /\ extractLocation(sensors[o].friendlyName) = extractLocation(sensors[k].friendlyName)
     /\ sensors[o].id \in DOMAIN latestReadings}

\* sensor k of the list, marked battery and with an entry, gives the
\* humidity of its entry to the battery value of its group unless a later
\* one does, and the group's temperature and humidity are what they are
\* when the list is grouped without sensor k
BatteryContributes(sensors, latestReadings, returned, k) ==
  LET location == extractLocation(sensors[k].friendlyName)
      without == groupSensorsByLocation(RemoveAt(sensors, k), latestReadings)
  IN /\ LaterBattery(sensors, latestReadings, k) = {} =>
          ShownAt(returned, location, "battery") = latestReadings[sensors[k].id].humidity
     /\ ShownAt(returned, location, "temperature") = ShownAt(without, location, "temperature")
     /\ ShownAt(returned, location, "humidity") = ShownAt(without, location, "humidity")

\* C22: a member whose name marks it as battery or power gives the humidity
\* field of its latest reading to the battery value of its group and leaves
\* the temperature and the humidity of the group as they are without it
C22_BatteryThroughHumidityField ==
  call.op = "groupSensorsByLocation" =>
    \A k \in 1..Len(call.sensors) :
      (/\ MarkedBattery(call.sensors[k].friendlyName)
       /\ ~isDeviceName(extractLocation(call.sensors[k].friendlyName))
       /\ call.sensors[k].id \in DOMAIN call.latestReadings)
      => BatteryContributes(call.sensors, call.latestReadings, call.returned, k)

\* C22, for the names in which battery or power is the only descriptor word
C22_BatteryOnlyDescriptor ==
  call.op = "groupSensorsByLocation" =>
    \A k \in 1..Len(call.sensors) :
      (/\ MarkedBattery(call.sensors[k].friendlyName)
       /\ getSensorDataType(call.sensors[k].friendlyName) = "battery"
       /\ ~isDeviceName(extractLocation(call.sensors[k].friendlyName))
       /\ call.sensors[k].id \in DOMAIN call.latestReadings)
      => BatteryContributes(call.sensors, call.latestReadings, call.returned, k)

\* 'Bad Temperature', 'Bad Battery' and 'Bad Humidity' grouped with the
\* battery value taken from the humidity field of the battery sensor's entry
C22_BatteryMerged ==
  /\ call.op = "groupSensorsByLocation"
  /\ Len(call.sensors) = 3
  /\ call.sensors[1].friendlyName = GroupingNames[1]
  /\ call.sensors[2].friendlyName = GroupingNames[12]
  /\ call.sensors[3].friendlyName = GroupingNames[2]
  /\ Len(call.returned) = 1
  /\ call.returned[1].temperature = {11}
  /\ call.returned[1].humidity = {12}
  /\ call.returned[1].battery = {22}

\* the greatest number of a non-empty set
MaxOf(S) == CHOOSE x \in S : \A y \in S : y <= x

\* C23: the lastSeen of every group returned is the greatest lastSeen of its
\* members, whatever the order of the members in the list
C23_LastSeenIsMaximum ==
  call.op = "groupSensorsByLocation" =>
    \A g \in 1..Len(call.returned) :
      call.returned[g].lastSeen =
        MaxOf({call.sensors[k].lastSeen :
                 k \in MembersOf(call.sensors, call.returned[g])})

\* a group of three members of which the second was seen last
C23_Witness ==
  /\ call.op = "groupSensorsByLocation"
  /\ Len(call.sensors) = 3
  /\ call.sensors[1].lastSeen = 1
  /\ call.sensors[2].lastSeen = 2
  /\ call.sensors[3].lastSeen = 1
  /\ Len(call.returned) = 1
  /\ Len(call.returned[1].sensorIds) = 3
  /\ call.returned[1].lastSeen = 2

\* every sensor of a list has status online
AllOnline(sensors) == \A i \in 1..Len(sensors) : sensors[i].status = "online"

\* C24: every sensor discoverSensors returned, every sensor a discovery is
\* upserting, every sensor of the roster and every row of table sensors has
\* status online
C24_DiscoveredSensorsOnline ==
  /\ \A d \in DOMAIN discoveries :
       /\ discoveries[d].result # <<>> => AllOnline(discoveries[d].result[1].sensors)
       /\ AllOnline(discoveries[d].sensors)
  /\ AllOnline(currentSensors)
  /\ \A id \in DOMAIN dbSensors : dbSensors[id].status = "online"

\* a rediscovery has returned two sensors, one of them upserted for the
\* second time, while the roster still holds the sensors of the first
C24_Witness ==
  /\ Len(currentSensors) >= 1
  /\ Cardinality(DOMAIN dbSensors) >= 2
  /\ \E d \in DOMAIN discoveries :
       /\ discoveries[d].kind = "timer"
       /\ discoveries[d].phase = "upserting"
       /\ discoveries[d].idx >= 1

\* C25: the step in which a delete of a retention tick fails changes no
\* stored reading, no timer and no position of the worker; a tick whose
\* timer is armed can fire after it, and every tick that fires on an open
\* pool starts a delete, which can run
C25_FailStep ==
  cleanupsFailed' # cleanupsFailed =>
    /\ dbReadings' = dbReadings
    /\ data' = data
    /\ timerVars' = timerVars
    /\ exitCode' = exitCode
    /\ mainPc' = mainPc
    /\ shutdownPc' = shutdownPc

C25_TickStep ==
  (cleanupsStarted' # cleanupsStarted /\ pool = "open") =>
    /\ cleanupsStarted' \in DOMAIN cleanups'
    /\ cleanups'[cleanupsStarted'].phase = "deleting"

C25_State ==
  /\ (cleanupsFailed > 0 /\ Running /\ cleanupIntervalId = "armed"
        /\ cleanupsStarted < MaxRetentionTicks)
       => \A today \in Clock : ENABLED RetentionTick(today)
  /\ \A c \in DOMAIN cleanups :
       (cleanups[c].phase = "deleting" /\ Running) => ENABLED DeleteDone(c)

C25_FailedDeleteRetried ==
  [](C25_State) /\ [][C25_FailStep /\ C25_TickStep]_vars

\* the first delete has failed and the delete of the second tick has
\* removed rows, with the timer still armed
C25_Witness ==
  /\ cleanupsFailed = 1
  /\ cleanupsStarted = 2
  /\ cleanupIntervalId = "armed"
  /\ 2 \in DOMAIN cleanups
  /\ cleanups[2].phase = "deleted"
  /\ cleanups[2].deletedCount >= 1

\* the identifiers of table sensors whose row a step has inserted or changed
RowsWritten ==
  {id \in DOMAIN dbSensors' : id \notin DOMAIN dbSensors \/ dbSensors'[id] # dbSensors[id]}

\* C26: no step of the worker removes an identifier from table sensors; a
\* step writes at most one row, under the identifier the row carries
C26_Step ==
  /\ DOMAIN dbSensors \subseteq DOMAIN dbSensors'
  /\ Cardinality(RowsWritten) <= 1
  /\ \A id \in RowsWritten : dbSensors'[id].id = id

C26_SensorsNeverLost == [][C26_Step]_vars

\* a rediscovery has updated the row of t1 and returned a roster without
\* h1, whose row is still in the table
C26_Witness ==
  /\ DOMAIN dbSensors = {<<"t","1">>, <<"h","1">>}
  /\ dbSensors[<<"t","1">>].friendlyName = <<"B","a","d"," ","T","e","m","p">>
  /\ Len(currentSensors) = 1
  /\ currentSensors[1].id = <<"t","1">>
  /\ discoveries = <<>>

\* C27: a pass in flight is eventually over unless the process exits first,
\* given that each call it waits for returns or fails; a pass calls
\* getReadingCount, and is over, only when none of its fetches is pending
C27_State ==
  \A p \in DOMAIN passes : passes[p].phase = "counting" => AllResolved(passes[p])

C27_Step ==
  \A p \in DOMAIN passes :
    p \notin DOMAIN passes' => (passes[p].phase = "counting" /\ AllResolved(passes[p]))

C27_PassCompletes ==
  /\ \A p \in 1..MaxPasses :
       (p \in DOMAIN passes) ~> (p \notin DOMAIN passes \/ ~Running)
  /\ [](C27_State)
  /\ [][C27_Step]_vars

\* a pass of two sensors of which one fetch failed and the other was stored
\* has gone on to its count
C27_Witness ==
  \E p \in DOMAIN passes :
    /\ passes[p].phase = "counting"
    /\ Len(passes[p].roster) = 2
    /\ \E i, j \in 1..2 : passes[p].fetch[i] = "fetchFailed" /\ passes[p].fetch[j] = "ok"

\* the readings of a list that no reading of the list is stamped later than
GreatestOf(readings) ==
  {readings[k] : k \in {j \in 1..Len(readings) :
                          \A o \in 1..Len(readings) :
                            readings[o].timestamp <= readings[j].timestamp}}

\* the rows of a sensor in the table that no row of the sensor is stamped
\* later than
GreatestRowsOf(table, id) ==
  {r \in BagToSet(table) :
     /\ r.sensor_id = id
     /\ \A o \in BagToSet(table) : o.sensor_id = id => o.timestamp <= r.timestamp}

\* getAllLatestReadings has returned, for every sensor with rows, one of its
\* rows of greatest timestamp
DatabaseLatestIsGreatest ==
  call.op = "getAllLatestReadings" =>
    /\ DOMAIN call.returned = SensorsWithReadings(dbReadings)
    /\ \A id \in DOMAIN call.returned :
         call.returned[id] \in GreatestRowsOf(dbReadings, id)

\* C28: for every sensor with stored readings, getLatest, getAllLatest and
\* getAllLatestReadings return a stored reading of that sensor that none of
\* its stored readings is stamped later than, whatever the order in which
\* the readings were added
C28_LatestIsGreatestTimestamp ==
  /\ (call.op = "getLatest" /\ call.sensorId \in DOMAIN data
        /\ Len(data[call.sensorId]) > 0)
       => \E r \in GreatestOf(data[call.sensorId]) : call.returned = {r}
  /\ call.op = "getAllLatest" =>
       \A id \in DOMAIN data :
         Len(data[id]) > 0 =>
           (id \in DOMAIN call.returned /\ call.returned[id] \in GreatestOf(data[id]))
  /\ DatabaseLatestIsGreatest

\* C28, for the query of the database alone
C28_DatabaseLatest == DatabaseLatestIsGreatest

\* the table holds a row of day 2 added before a row of day 0 of the same
\* sensor, and the query of the database has returned the row of day 2
C28_DatabaseWitness ==
  /\ call.op = "getAllLatestReadings"
  /\ <<"t","1">> \in DOMAIN data
  /\ Len(data[<<"t","1">>]) = 2
  /\ data[<<"t","1">>][1].timestamp = 2
  /\ data[<<"t","1">>][2].timestamp = 0
  /\ call.returned[<<"t","1">>].timestamp = 2

\* C29: a call of groupSensorsByLocation leaves the list of sensors, every
\* sensor of it and the latest-reading map as they were, and changes
\* nothing else of the program
C29_Step ==
  call'.op = "groupSensorsByLocation" =>
    /\ call'.sensors = call.sensors
    /\ call'.latestReadings = call.latestReadings
    /\ UNCHANGED <<workerVars, serverVars, dbReadings, data>>

ArrayOf(map, sensorId) == IF sensorId \in DOMAIN map THEN map[sensorId] ELSE <<>>

\* C30: no sensor of the store holds more readings than the limit of the
\* store (MAX_POINTS_PER_SENSOR in the program, MaxPoints in the store
\* followed here); an add call appends its reading to the array of its sensor,
\* dropping the reading added first when the array would exceed the limit,
\* and leaves the arrays of the other sensors as they were
C30_State ==
  \A sensorId \in DOMAIN data : Len(data[sensorId]) <= MaxPoints

C30_Step ==
  call'.op = "add" =>
    LET reading == call'.reading
        old == ArrayOf(data, reading.sensorId)
    IN /\ DOMAIN data' = DOMAIN data \cup {reading.sensorId}
       /\ data'[reading.sensorId] =
            (IF Len(old) + 1 > MaxPoints
             THEN Tail(old) \o <<reading>>
             ELSE old \o <<reading>>)
       /\ \A other \in DOMAIN data \ {reading.sensorId} : data'[other] = data[other]

C30_PointsPerSensorCapped == [](C30_State) /\ [][C30_Step]_vars

\* an add on the full array of t1 has dropped the reading added first and
\* kept the new one, the array of h1 being as it was
C30_Witness ==
  /\ call.op = "add"
  /\ call.reading.sensorId = <<"t","1">>
  /\ Len(data[<<"t","1">>]) = MaxPoints
  /\ data[<<"t","1">>][1].timestamp = 2
  /\ data[<<"t","1">>][MaxPoints] = call.reading
  /\ data[<<"h","1">>] = AddedReadings(<<"h","1">>, 2)

\* the armed intervals of one kind that belong to a service
ArmedOf(s, kind) ==
  {t \in DOMAIN timers :
     timers[t].armed /\ timers[t].owner = s /\ timers[t].kind = kind}

\* C31: while isCollecting() of a service is false neither its collection
\* interval nor its eviction interval is armed, and never more than one
\* interval of each kind is armed for it
C31_TimersOnlyWhileCollecting ==
  \A s \in DOMAIN services :
    /\ ~services[s].isRunning =>
         ArmedOf(s, "collection") = {} /\ ArmedOf(s, "eviction") = {}
    /\ Cardinality(ArmedOf(s, "collection")) <= 1
    /\ Cardinality(ArmedOf(s, "eviction")) <= 1

\* the services that initializeServer calls have returned
ReturnedServices ==
  UNION {inits[i].returned : i \in {j \in DOMAIN inits : inits[j].pc = "returned"}}

\* C32: as long as shutdownServer has not run, however many initializeServer
\* calls were made and however they overlapped, at most one service has been
\* made and started, at most one rediscovery interval is armed, and the
\* calls that returned a service returned the same one
C32_InitializesOnce ==
  shutdowns = 0 =>
    /\ Len(services) <= 1
    /\ Cardinality(ArmedOf(0, "rediscovery")) <= 1
    /\ Cardinality(ReturnedServices) <= 1

\* an initializeServer call made on an initialized server returns
\* backgroundService at once and makes neither a service nor an interval
C32_InitializedCallStep ==
  (Len(inits') > Len(inits) /\ isInitialized) =>
    /\ inits'[Len(inits')] = [pc |-> "returned", returned |-> backgroundService]
    /\ backgroundService # Null
    /\ UNCHANGED <<services, timers, tasks, backgroundService>>

C32_InitializedCallReturnsService == [][C32_InitializedCallStep]_vars

C32_InitializedCallWitness ==
  /\ shutdowns = 0
  /\ Len(inits) = 2
  /\ inits[1] = [pc |-> "returned", returned |-> {1}]
  /\ inits[2] = [pc |-> "returned", returned |-> {1}]
  /\ Len(services) = 1
  /\ Cardinality(ArmedOf(0, "rediscovery")) = 1

\* C33: once shutdownServer has returned no interval of the server process
\* is armed, neither a collection nor an eviction nor a rediscovery interval,
\* and the sensors of a service that is not running are never replaced
C33_ShutdownStep ==
  shutdowns' = shutdowns + 1 => \A t \in DOMAIN timers' : ~timers'[t].armed

C33_RosterStep ==
  \A s \in DOMAIN services :
    services'[s].sensors # services[s].sensors => services[s].isRunning

C33_NothingArmedAfterShutdown == [][C33_ShutdownStep /\ C33_RosterStep]_vars

\* C33, of the intervals of the service backgroundService refers to: those
\* shutdownServer does clear
C33_ServiceStep ==
  (shutdowns' = shutdowns + 1 /\ backgroundService # Null) =>
    \A s \in backgroundService :
      /\ ~services'[s].isRunning
      /\ \A t \in services[s].intervalId \cup services[s].evictionIntervalId :
           ~timers'[t].armed

C33_ServiceIntervalsCleared == [][C33_ServiceStep]_vars

\* shutdownServer has cleared the intervals of a started service
C33_ServiceWitness ==
  /\ shutdowns = 1
  /\ Len(services) = 1
  /\ ~services[1].isRunning
  /\ Len(timers) = 3
  /\ ~timers[1].armed
  /\ ~timers[2].armed

\* C34: while the collection timer is armed a tick starts a new pass whether
\* or not earlier passes are in flight, leaving those as they are; and every
\* insert a pass completes adds a row of its own to sensor_readings, also
\* when a row of the same sensor and timestamp is there already
C34_State ==
  (Running /\ collectionIntervalId = "armed" /\ passesStarted < MaxPasses)
    => ENABLED CollectionTick

C34_Step ==
  /\ passesStarted' = passesStarted + 1 =>
       passes' = IF Len(currentSensors) = 0 THEN passes
                 ELSE passes @@ ((passesStarted + 1) :> NewPass(currentSensors))
  /\ \A p \in DOMAIN passes : \A i \in 1..Len(passes[p].roster) :
       (passes[p].fetch[i] = "inserting" /\ p \in DOMAIN passes'
        /\ passes'[p].fetch[i] = "ok") =>
         dbReadings' = dbReadings (+) SetToBag({ReadingRow(passes[p].rd[i][1])})

C34_PassesOverlap == [](C34_State) /\ [][C34_Step]_vars

\* two passes are in flight at once and each has written its reading of
\* sensor t1, the two rows having the same sensor and timestamp
C34_Witness ==
  /\ DOMAIN passes = {1, 2}
  /\ passes[1].fetch[1] = "ok"
  /\ passes[2].fetch[1] = "ok"
  /\ passes[1].roster[1].id = <<"t","1">>
  /\ \E row \in BagToSet(dbReadings) :
       /\ row.sensor_id = <<"t","1">>
       /\ CopiesIn(row, dbReadings) = 2

\* C35: every sensor of the roster is a row of table sensors; a roster is
\* installed only with all its sensors upserted, a discovery that fails
\* while upserting leaves the roster as it was, and every row the worker
\* inserts into sensor_readings refers to a row of table sensors
C35_State == Ids(currentSensors) \subseteq DOMAIN dbSensors

C35_Step ==
  /\ currentSensors' # currentSensors =>
       \A i \in 1..Len(currentSensors') :
         currentSensors'[i].id \in DOMAIN dbSensors'
  /\ \A d \in DOMAIN discoveries :
       (/\ discoveries[d].phase = "upserting"
        /\ \/ d \in DOMAIN discoveries' /\ discoveries'[d].phase = "rejected"
           \/ mainPc' = "failed")
       => currentSensors' = currentSensors
  /\ \A row \in BagToSet(dbReadings') :
       CopiesIn(row, dbReadings') > CopiesIn(row, dbReadings) =>
         row.sensor_id \in DOMAIN dbSensors

C35_RosterIsPersisted == [](C35_State) /\ [][C35_Step]_vars

\* a rediscovery failed on its second upsert: the first sensor is stored
\* under its new name, the second is not stored, the roster is the one the
\* initial discovery installed, and the first pass has inserted a reading
C35_Witness ==
  /\ 2 \in DOMAIN discoveries
  /\ discoveries[2].phase = "rejected"
  /\ Len(currentSensors) = 1
  /\ currentSensors[1].friendlyName = <<"B","a","d"," ","T","e","m","p">>
  /\ dbSensors[<<"t","1">>].friendlyName
       = <<"B","a","d"," ","T","e","m","p","e","r","a","t","u","r","e">>
  /\ <<"h","1">> \notin DOMAIN dbSensors
  /\ \E row \in BagToSet(dbReadings) : row.sensor_id = <<"t","1">>

\* a reading has exactly one of its two value fields
OneValue(reading) ==
  ("temperature" \in DOMAIN reading) # ("humidity" \in DOMAIN reading)

\* C36: every sensor discoverSensors returns has type temperature or
\* humidity, never both, and the reading built for it from a served state
\* has exactly one of temperature and humidity
C36_OneKindPerSensor ==
  call.op = "discoverSensors" =>
    \A i \in 1..Len(call.returned.sensors) :
      LET sensor == call.returned.sensors[i]
      IN /\ sensor.type \in {"temperature", "humidity"}
         /\ \A lastUpdated \in LastUpdatedValues :
              OneValue(BuildReading(sensor,
                                    [entity_id |-> sensor.entityId,
                                     state |-> <<"2","1">>,
                                     last_updated |-> lastUpdated], 21))

\* a record with the device class temperature and the unit % was returned
\* as a temperature sensor
C36_Witness ==
  /\ call.op = "discoverSensors"
  /\ Len(call.states) = 1
  /\ call.states[1].attributes.device_class = temperatureStr
  /\ call.states[1].attributes.unit_of_measurement = <<"%">>
  /\ Len(call.returned.sensors) = 1
  /\ call.returned.sensors[1].type = "temperature"

\* the same in the worker: the sensors of the roster and of the passes in
\* flight are temperature or humidity sensors, and the readings built and
\* the rows written have exactly one value
C36_WorkerReadings ==
  /\ \A i \in 1..Len(currentSensors) :
       currentSensors[i].type \in {"temperature", "humidity"}
  /\ \A p \in DOMAIN passes : \A i \in 1..Len(passes[p].roster) :
       /\ passes[p].roster[i].type \in {"temperature", "humidity"}
       /\ \A k \in 1..Len(passes[p].rd[i]) : OneValue(passes[p].rd[i][k])
  /\ \A row \in BagToSet(dbReadings) : (row.temperature = Null) # (row.humidity = Null)

\* the latest-readings maps tried for a list of discovered sensors: none,
\* and one with a reading of every sensor
LatestOf(sensors) ==
  {<<>>,
   [id \in Ids(sensors) |->
      [sensor_id |-> id, timestamp |-> 1, temperature |-> {21}, humidity |-> {21}]]}

\* C37: a sensor discovered from a record without a friendly name is named
\* by its entity id, the device-name filter rejects that name, and no group
\* made from the discovered sensors has the sensor as a member
C37_DefaultNamedNeverGrouped ==
  call.op = "discoverSensors" =>
    \A k \in 1..Len(call.states) : \A i \in 1..Len(call.returned.sensors) :
      LET sensor == call.returned.sensors[i]
      IN (/\ call.states[k].entity_id = sensor.entityId
          /\ call.states[k].attributes.friendly_name = Undefined)
         => /\ sensor.friendlyName = sensor.entityId
            /\ isDeviceName(extractLocation(sensor.friendlyName))
            /\ \A latestReadings \in LatestOf(call.returned.sensors) :
                 LET groups == groupSensorsByLocation(call.returned.sensors,
                                                      latestReadings)
                 IN \A g \in 1..Len(groups) :
                      \A m \in 1..Len(groups[g].sensorIds) :
                        groups[g].sensorIds[m] # sensor.id

\* a temperature record without a friendly name was discovered, and the
\* groups made from the discovered sensors are none
C37_Witness ==
  /\ call.op = "discoverSensors"
  /\ Len(call.states) = 1
  /\ call.states[1].attributes.friendly_name = Undefined
  /\ call.states[1].attributes.device_class = temperatureStr
  /\ Len(call.returned.sensors) = 1
  /\ call.returned.sensors[1].friendlyName = <<"s","e","n","s","o","r",".","a","1">>
  /\ \A latestReadings \in LatestOf(call.returned.sensors) :
       groupSensorsByLocation(call.returned.sensors, latestReadings) = <<>>

\* the places (group, position) at which the returned groups list an id
PlacesOf(groups, id) ==
  {<<g, m>> \in (1..Len(groups)) \X (1..MaxGroupInput + 1) :
     m <= Len(groups[g].sensorIds) /\ groups[g].sensorIds[m] = id}

\* the position of an id in the list handed in, 0 for an id not in it
InputPosition(sensors, id) ==
  IF \E k \in 1..Len(sensors) : sensors[k].id = id
  THEN CHOOSE k \in 1..Len(sensors) : sensors[k].id = id
  ELSE 0

\* C38: of a list of sensors with distinct ids, every sensor whose location
\* the device-name filter lets through is listed by exactly one returned
\* group, once; every sensor the filter rejects is listed by none; the
\* members of a group are sensors of the list, in the order of the list;
\* and no returned group is without members
C38_MembersPartitionInput ==
  call.op = "groupSensorsByLocation" =>
    /\ \A k \in 1..Len(call.sensors) :
         Cardinality(PlacesOf(call.returned, call.sensors[k].id)) =
           (IF isDeviceName(extractLocation(call.sensors[k].friendlyName))
            THEN 0 ELSE 1)
    /\ \A g \in 1..Len(call.returned) :
         LET ids == call.returned[g].sensorIds
         IN /\ Len(ids) >= 1
            /\ \A m \in 1..Len(ids) : InputPosition(call.sensors, ids[m]) > 0
            /\ \A m, n \in 1..Len(ids) :
                 m < n => InputPosition(call.sensors, ids[m])
                            < InputPosition(call.sensors, ids[n])

\* of three sensors the second was rejected and the first and the third
\* are the members of the one group returned, in that order
C38_Witness ==
  /\ call.op = "groupSensorsByLocation"
  /\ Len(call.sensors) = 3
  /\ call.sensors[1].friendlyName = <<"B","a","d"," ","H","u","m","i","d","i","t","y">>
  /\ isDeviceName(extractLocation(call.sensors[2].friendlyName))
  /\ call.sensors[3].friendlyName = <<"B","a","d"," ","T","e","m","p","e","r","a","t","u","r","e">>
  /\ Len(call.returned) = 1
  /\ call.returned[1].sensorIds = <<call.sensors[1].id, call.sensors[3].id>>

\* C39: the value a group shows for a kind is the field of the reading of
\* the last member in list order that is of that kind by name and has an
\* entry in the map of latest readings, defined or not
C39_LastSourceWins ==
  call.op = "groupSensorsByLocation" =>
    \A g \in 1..Len(call.returned) : \A kind \in DataKinds :
      LET src == KindSources(call.sensors, call.latestReadings,
                             call.returned[g], kind)
      IN src # {} =>
           Shown(call.returned[g], kind) =
             ReadingValue(call.latestReadings[call.sensors[MaxOf(src)].id], kind)

\* two members of location Temperature Lab are temperature members by name
\* and both have a reading; the reading of the second lacks the temperature
\* and the group shows none, the temperature of the first being lost
C39_Witness ==
  /\ call.op = "groupSensorsByLocation"
  /\ Len(call.sensors) = 2
  /\ call.sensors[1].friendlyName = <<"T","e","m","p","e","r","a","t","u","r","e"," ","L","a","b"," ","T","e","m","p","e","r","a","t","u","r","e">>
  /\ call.sensors[2].friendlyName = <<"T","e","m","p","e","r","a","t","u","r","e"," ","L","a","b"," ","H","u","m","i","d","i","t","y">>
  /\ call.sensors[1].id \in DOMAIN call.latestReadings
  /\ call.sensors[2].id \in DOMAIN call.latestReadings
  /\ call.latestReadings[call.sensors[1].id].temperature = {17}
  /\ call.latestReadings[call.sensors[2].id].temperature = Null
  /\ Len(call.returned) = 1
  /\ call.returned[1].sensorIds = <<call.sensors[1].id, call.sensors[2].id>>
  /\ call.returned[1].temperature = Null

\* the same two sensors in the other order: the group shows the temperature
C39_WitnessOtherOrder ==
  /\ call.op = "groupSensorsByLocation"
  /\ Len(call.sensors) = 2
  /\ call.sensors[2].friendlyName = <<"T","e","m","p","e","r","a","t","u","r","e"," ","L","a","b"," ","T","e","m","p","e","r","a","t","u","r","e">>
  /\ call.sensors[1].friendlyName = <<"T","e","m","p","e","r","a","t","u","r","e"," ","L","a","b"," ","H","u","m","i","d","i","t","y">>
  /\ call.sensors[1].id \in DOMAIN call.latestReadings
  /\ call.sensors[2].id \in DOMAIN call.latestReadings
  /\ Len(call.returned) = 1
  /\ call.returned[1].temperature = {17}

====
